\* Two runs of up to two rows each beside one row of another process.
SPECIFICATION FairSpec
CONSTANTS
    Order <- MCOrder
    MaxRows = 2
    MaxOtherRows = 1
CHECK_DEADLOCK FALSE
INVARIANTS
    OutputsInOrder
PROPERTIES
    CompareEnds
