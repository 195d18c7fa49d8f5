CONSTANTS
    Word = 16
    Offset = 3
    MaxChannels = 6
    MaxData = 3
    MaxWrites = 2
    Options = {"NAWS", "ECHO", "OENV", "NENV"}
    Backlog = 0
    MaxServer = 1
    MaxUser = 1
    Room = 2
    MaxIn = 3
    MaxOut = 3
SPECIFICATION MCSpec
INVARIANTS TypeOK ProbeInTree FirstFit ConnectionSound TelnetSound
PROPERTIES NetProceeds
CHECK_DEADLOCK FALSE
