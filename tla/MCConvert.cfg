SPECIFICATION Spec
CONSTANTS
    a = a
    d = d
    Comma = Comma
    Newline = Newline
    Quote = Quote
    MaxText = 6
    zero = zero
    Minus = Minus
    Blank = Blank
    Numerals <- MCNumerals
    Stoll <- MCStoll
    Jobs <- MCJobs
INVARIANTS RowsAsWritten RoundTrip ChunksFound
PROPERTIES ConversionEnds
CHECK_DEADLOCK FALSE
