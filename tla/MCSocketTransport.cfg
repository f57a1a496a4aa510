\* Three requests over one connection.
SPECIFICATION FairSpec
CONSTANT N = 3
CHECK_DEADLOCK FALSE
PROPERTIES
    ImplementsRequestReply
    TimedSendsEnd
