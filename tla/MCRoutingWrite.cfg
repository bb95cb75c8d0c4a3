CONSTANTS
    Accounts = {a1, a2}
    Concurrencies = {1, 2}
    FirstSettings <- OneOrTwo
    Limit = 2
    ManageAll = FALSE
    Verify = TRUE
    Null = Null
    MaxRounds = 2
    MaxDisturbances = 1
SYMMETRY AccountSymmetry
SPECIFICATION AlikeSpec
CHECK_DEADLOCK FALSE
PROPERTIES
    CapacityKept
    ProjectionConfirmed
    OwnWritesRecognised
    RestoresOriginal
    RoundsEnd
    ImplementsCustody
