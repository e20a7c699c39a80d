CONSTANTS
    Posts = {a}
    Page = page
    Pids = {1, 2}
    MaxBirths = 2
    MaxRequests = 2
    MaxKills = 1
    Settings <- MCSettings
    None = None
SPECIFICATION SupervisorSpec
INVARIANT NothingOrphaned
PROPERTIES StopsOnlyItsOwn StatusCatchesUp
CHECK_DEADLOCK FALSE
