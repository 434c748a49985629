\* Three connection losses, four session ids (one per connect that can ask
\* for a new session), two passwords, two zxids observed while connected.
CONSTANTS
    ConfiguredTimeouts <- MCConfiguredTimeouts
    GrantedTimeouts <- MCGrantedTimeouts
    SessionIds = {1, 2, 3, 4}
    Passwds <- MCPasswds
    MaxLosses = 3
    MaxZxid = 2
SPECIFICATION Spec
INVARIANT ReconnectResumesGrant
PROPERTY SessionRefinesSpec
\* An expired session, and a connected one with no losses left, stop.
CHECK_DEADLOCK FALSE
