\* Two runs and one maintenance worker over two units.
SPECIFICATION Spec
CONSTANTS
    Clients = {c1, c2}
    Workers = {w1}
    N = 2
    None = None
    Limit = 1
    MaxItems = 2
    MaxSearches = 2
    MaxFailures = 1
SYMMETRY Symmetric
INVARIANTS
    ReuseIsServed
    RunCountsLead
PROPERTIES
    ImplementsShelf
