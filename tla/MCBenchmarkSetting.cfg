\* The same shell.
SPECIFICATION Spec
CONSTANTS
    Suites <- MCSuites
    Missing = Missing
    None = None
    CanUnlink = TRUE
    Limit = 2
    MaxCommands = 3
    MaxUnits = 4
CHECK_DEADLOCK FALSE
INVARIANT SettingIsRestored
