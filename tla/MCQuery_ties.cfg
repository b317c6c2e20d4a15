SPECIFICATION FairSpec
CONSTANTS
    RealSchema <- MCRealSchema
    WordBits <- MCWordBits
    Tables <- MCTables
    Calls <- OrderCalls
    MaxCalls = 2
    Empty = 100
    NoOptions = NoOptions
    NoValue = NoValue
    NoCol = NoCol
    NoOrder = NoOrder
    RowLimit = 5
    IndexRange = 6
    ChunkSize = 2
INVARIANTS SecondKeyBreaksTie
CHECK_DEADLOCK FALSE
