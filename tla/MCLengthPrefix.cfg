\* Frames of SetData requests with data up to and past 2^31 bytes: every
\* length field written states the length it measured.
CONSTANTS
    PathLen = 2
    DataLens <- MCDataLens
SPECIFICATION Spec
INVARIANT PrefixesStateLengths
\* One frame is written; the model then stops.
CHECK_DEADLOCK FALSE
