\* One run and a worker whose rounds see one of two units.
SPECIFICATION FairSpec
CONSTANTS
    Clients = {c1}
    Workers = {w1}
    N = 2
    None = None
    Limit = 1
    MaxItems = 1
    MaxSearches = 2
    MaxFailures = 1
INVARIANTS
    LogFollowsArchive
PROPERTIES
    StopEnds
    DueAreArchived
