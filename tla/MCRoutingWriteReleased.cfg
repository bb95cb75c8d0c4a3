CONSTANTS
    Accounts = {a1}
    Concurrencies = {1, 2}
    FirstSettings <- OneOrTwo
    Limit = 2
    ManageAll = FALSE
    Verify = TRUE
    Null = Null
    MaxRounds = 3
    MaxDisturbances = 1
SPECIFICATION Spec
CHECK_DEADLOCK FALSE
PROPERTIES
    OnlyHumanReleasesControl
