\* Two threads, three requests, every kind of code.
SPECIFICATION FairSpec
CONSTANTS
    Callers = {c1, c2}
    Codes = {"plain", "exits", "stray"}
    MaxCalls = 3
    None = None
CHECK_DEADLOCK FALSE
INVARIANTS
    TypeOK
    AnswersAreOwn
    DoneIsStopped
    RunsOnce
    OrphansNeedRace
PROPERTIES
    CallsEnd
