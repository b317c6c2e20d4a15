SPECIFICATION Spec
CONSTANTS
    a = a
    b = b
    Percent = Percent
    MaxPattern = 5
    MaxText = 5
    Chars = {a, b, Percent}
    MaxGram = 3
    Patterns <- MCPatterns
    Texts <- MCTexts
    BitsOf <- MCBitsOf
INVARIANTS Verdict GreedyIsEnough FilterAccepts
CHECK_DEADLOCK FALSE
