\* Replies with non-UTF-8 strings and null vectors, decoded with each panic
\* counted as an error: the panics are the only disagreement with spec.md.
CONSTANTS
    Inputs <- MCMalformedInputs
    IntVals <- MCIntVals
    PermVals <- MCPermVals
    BufVals <- MCBufVals
    StrVals <- MCBadStrVals
    StatVals <- MCStatVals
    ServerErrs <- MCServerErrs
    MaxVec = 2
    MaxOps = 2
    NullLengths = TRUE
    NullVectors = TRUE
    ShortReads = FALSE
SPECIFICATION Spec
PROPERTY DecodeRefinesSpecUpToPanic
CHECK_DEADLOCK FALSE
