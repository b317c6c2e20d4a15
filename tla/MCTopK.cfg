SPECIFICATION Spec
CONSTANTS
    Values = {1, 2, 3}
    Limits = {1, 2, 3}
    MaxRows = 4
INVARIANTS TypeOK BestKept StableCut
PROPERTIES ImplementsBestRows
CHECK_DEADLOCK FALSE
