SPECIFICATION LibationSpec
CONSTANTS
    main = main
    second = second
    ada = ada
    bob = bob
    root = root
    None = None
    Profiles = {main, second}
    Asking = {ada}
    Direct = {bob}
    Admin = root
    Imported = {second}
    MaxPending = 1
    MaxTracked = 2
    Bounds <- MCBounds
INVARIANTS
    IntentsAreKept
    RequestsAreTrue
    TitleIsImportedOnce
PROPERTY
    IntentsSettle
CHECK_DEADLOCK FALSE
