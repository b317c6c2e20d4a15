SPECIFICATION FairSpec
CONSTANTS
    k1 = k1
    k2 = k2
    k3 = k3
    Keys = {k1, k2, k3}
    NoKey = NoKey
    Free = Free
    HashValues = {0, 1, 3, 5, 7}
    HashFns <- MCHashFns
    InitCap = 2
    MaxRows = 4
INVARIANTS TypeOK Searchable HalfFree RightReference
PROPERTIES NothingLost CallsReturn ImplementsGroups
CHECK_DEADLOCK FALSE
