\* The first connect request against the configured timeout, for timeouts
\* of 5000 ms, 2^31 ms and 2^32 + 5000 ms.
CONSTANTS
    ConfiguredTimeouts <- MCConfiguredTimeouts
    GrantedTimeouts <- MCGrantedTimeouts
    SessionIds = {1, 2, 3}
    Passwds <- MCPasswds
    MaxLosses = 2
    MaxZxid = 1
SPECIFICATION Spec

INVARIANT ProposesConfiguredTimeout

\* An expired session, and a connected one with no losses left, stop.
CHECK_DEADLOCK FALSE
