CONSTANTS
    Scenarios <- Checked
    Live = {"screen", "decoder", "parser", "line", "wire", "port", "display", "keys"}
    MaxArgs = 2
    MaxValue = 62
    MaxOsc = 2
    MaxKeys = 3
    MaxModes = 1
    ByteBits = 3
    LineLength = 32
SPECIFICATION MCSpec
INVARIANTS TypeOK LinesSound WideSound SelectionKept StreamSound EditSound
PROPERTIES ViewKept
CHECK_DEADLOCK FALSE
