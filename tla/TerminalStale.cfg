CONSTANTS
    Scenarios <- Stale
    Live = {"screen"}
    MaxArgs = 2
    MaxValue = 62
    MaxOsc = 2
    MaxKeys = 3
    MaxModes = 1
    ByteBits = 3
    LineLength = 32
SPECIFICATION MCSpec
INVARIANT LinesInReach
CHECK_DEADLOCK FALSE
