SPECIFICATION FairSpec
CONSTANTS
    BlockSize = 3
    RleDecision = 2
    MaxRun = 2
    Half = 4
    WordBytes = 3
    CountSpan = 4
    MaxRows = 7
    Capacity <- MCCapacity
    Rows <- MCRows
    Inputs <- MCInputs
INVARIANTS TypeOK RoundTrip WholeChunkRead
PROPERTIES ReadEnds
CHECK_DEADLOCK FALSE
