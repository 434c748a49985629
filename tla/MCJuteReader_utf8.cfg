\* Strings with a byte that is not UTF-8: spec.md 4.1 says a decode error;
\* read_string unwraps String::from_utf8 and panics.
CONSTANTS
    Inputs <- MCStringInputs
    IntVals <- MCIntVals
    PermVals <- MCPermVals
    BufVals <- MCBufVals
    StrVals <- MCBadStrVals
    StatVals <- MCStatVals
    ServerErrs <- MCServerErrs
    MaxVec = 2
    MaxOps = 2
    NullLengths = TRUE
    NullVectors = FALSE
    ShortReads = FALSE
SPECIFICATION Spec
INVARIANT NoPanic
CHECK_DEADLOCK FALSE
