SPECIFICATION FairSpec
CONSTANTS
    RealSchema <- MCRealSchema
    WordBits <- MCWordBits
    Tables <- MCTablesLong
    Calls <- OrderCalls
    MaxCalls = 4
    Empty = 100
    NoOptions = NoOptions
    NoValue = NoValue
    NoCol = NoCol
    NoOrder = NoOrder
    RowLimit = 4
    IndexRange = 5
    ChunkSize = 2
INVARIANTS AnswerCorrect AlwaysAnswered
CHECK_DEADLOCK FALSE
