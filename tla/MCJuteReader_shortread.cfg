\* Replies read through a reader whose read() may return part of what is
\* asked (not a Cursor): whole replies still decode to the fields sent.
CONSTANTS
    Inputs <- MCInputs
    IntVals <- MCIntVals
    PermVals <- MCPermVals
    BufVals <- MCBufVals
    StrVals <- MCStrVals
    StatVals <- MCStatVals
    ServerErrs <- MCServerErrs
    MaxVec = 2
    MaxOps = 2
    NullLengths = TRUE
    NullVectors = FALSE
    ShortReads = TRUE
SPECIFICATION Spec
INVARIANT RoundTrip
CHECK_DEADLOCK FALSE
