\* ACL and child lists sent null (count -1): spec.md 7 says a framing error;
\* Vec::with_capacity(len as usize) panics with a capacity overflow.
CONSTANTS
    Inputs <- MCListInputs
    IntVals <- MCIntVals
    PermVals <- MCPermVals
    BufVals <- MCBufVals
    StrVals <- MCStrVals
    StatVals <- MCStatVals
    ServerErrs <- MCServerErrs
    MaxVec = 2
    MaxOps = 2
    NullLengths = TRUE
    NullVectors = TRUE
    ShortReads = FALSE
SPECIFICATION Spec
INVARIANT NoPanic
CHECK_DEADLOCK FALSE
