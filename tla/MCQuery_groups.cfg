SPECIFICATION FairSpec
CONSTANTS
    RealSchema <- MCRealSchema
    WordBits <- MCWordBits
    Tables <- MCTables
    Calls <- GroupCalls
    MaxCalls = 4
    Empty = 100
    NoOptions = NoOptions
    NoValue = NoValue
    NoCol = NoCol
    NoOrder = NoOrder
    RowLimit = 5
    IndexRange = 6
    ChunkSize = 2
INVARIANTS AnswerCorrect LayoutAgrees SecondRunEmpty
PROPERTIES RunEnds
CHECK_DEADLOCK FALSE
