\* One run, every task, decision and sandbox outcome, two units to find.
SPECIFICATION Spec
CONSTANTS
    Runs = {r1}
    Prior = {u1, u2}
    None = None
    Limit = 1
    Handshake = TRUE
    GlobalMemory = TRUE
CHECK_DEADLOCK FALSE
INVARIANTS
    TypeOK
    NoDanglingRefs
    SummaryCovers
    CallsAreAnswered
    AnnouncedAreInvoked
    MarkFollowsUnit
    TraceIsTrue
    CountsMatchLogs
PROPERTIES
    ImplementsRoute
