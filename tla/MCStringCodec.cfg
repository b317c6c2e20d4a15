SPECIFICATION StringSpec
CONSTANTS
    NoOptions = NoOptions
    a = a
    b = b
    BlockSize = 3
    RleDecision = 2
    MaxRun = 2
    Half = 8
    WordBytes = 3
    CountSpan = 4
    Capacity <- MCCapacity
    Inputs = {}
    Chars = {a, b}
    MaxGram = 2
    BitsOf <- MCBitsOf
    BloomBytes = 3
    MaxRows = 5
    Strings <- MCStrings
    Wanted <- MCWanted
INVARIANTS StringsRead StringChunkEnd PruneSound
PROPERTIES StringReadEnds
CHECK_DEADLOCK FALSE
