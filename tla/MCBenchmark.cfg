\* Three commands of one shell, its exceptions and restarts.
SPECIFICATION Spec
CONSTANTS
    Suites <- MCSuites
    Missing = Missing
    None = None
    CanUnlink = TRUE
    Limit = 2
    MaxCommands = 3
    MaxUnits = 4
CHECK_DEADLOCK FALSE
INVARIANTS
    SuiteIsIsolated
    ProgressAdvances
    SummaryIsWhole
