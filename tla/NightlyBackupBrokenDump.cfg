SPECIFICATION Spec
CONSTANTS
    Nights = 3
    KeepDays = 2
    MaxVersion = 1
    None = None
INVARIANTS
    BrokenDumpWipesNothing
