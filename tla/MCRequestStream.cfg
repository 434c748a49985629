\* Up to two frames in flight, request ids 1 and -2 (a negative id, as the
\* manager uses for pings), every request type and transactions of up to
\* two operations.
CONSTANTS
    Connects <- MCConnects
    Requests <- MCRequests
    Xids <- MCXids
    MaxInFlight = 2
SPECIFICATION Spec
INVARIANT StreamParsesToRequests
