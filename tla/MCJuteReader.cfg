\* Every reply type whose decoder is live, with null buffers and strings:
\* each decode returns what spec.md's decoder returns, and whole replies
\* round-trip.  A decode ends by returning, so final states are expected.
CONSTANTS
    Inputs <- MCInputs
    IntVals <- MCIntVals
    PermVals <- MCPermVals
    BufVals <- MCBufVals
    StrVals <- MCStrVals
    StatVals <- MCStatVals
    ServerErrs <- MCServerErrs
    MaxVec = 2
    MaxOps = 2
    NullLengths = TRUE
    NullVectors = FALSE
    ShortReads = FALSE
SPECIFICATION Spec
INVARIANT TypeOK
INVARIANT RoundTrip
PROPERTY DecodeRefinesSpec
CHECK_DEADLOCK FALSE
