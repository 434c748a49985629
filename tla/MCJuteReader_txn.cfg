\* Transaction replies: spec.md 4.4 says one outcome per operation is decoded;
\* TransactionResponse::read_from returns an empty list without reading.
CONSTANTS
    Inputs <- MCTxnInputs
    IntVals <- MCIntVals
    PermVals <- MCPermVals
    BufVals <- MCBufVals
    StrVals <- MCStrVals
    StatVals <- MCStatVals
    ServerErrs <- MCServerErrs
    MaxVec = 2
    MaxOps = 2
    NullLengths = TRUE
    NullVectors = FALSE
    ShortReads = FALSE
SPECIFICATION Spec
INVARIANT RoundTrip
CHECK_DEADLOCK FALSE
