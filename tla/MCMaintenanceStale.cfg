\* A search reuses a unit between the moment a round reads it and archives it.
SPECIFICATION Spec
CONSTANTS
    Clients = {c1}
    Workers = {w1}
    N = 1
    None = None
    Limit = 1
    MaxItems = 1
    MaxSearches = 1
    MaxFailures = 0
PROPERTIES
    ArchivedWereUnused
