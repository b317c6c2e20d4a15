SPECIFICATION FairSpec
CONSTANTS
    NoOptions = NoOptions
    eps = eps
    a = a
    b = b
    c = c
    ab = ab
    Empty = eps
    MaxGroups = 3
    RealSchema <- MCRealSchema
    WordBits <- MCWordBits
    Values <- MCValues
    ColumnNames <- MCColumnNames
    Tables <- MCTables
    ColumnLists <- MCColumnLists
    Pushed <- MCPushed
INVARIANTS TypeOK InOrder NoWantedRowSkipped BatchIsGroup
PROPERTIES DrainEnds
CHECK_DEADLOCK FALSE
