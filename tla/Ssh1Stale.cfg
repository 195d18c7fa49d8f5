CONSTANTS
    Conn = {c1}
    None = None
    Options = {"pty"}
    Limit = 1
    MaxUnits = 1
    MaxQueue = 1
    AgentKeys = 1
    PwLens = {1}
    MaxPrompts = 1
    Class = 4
    CipherLists <- Preferences
SPECIFICATION Spec
INVARIANT DoneGranted
CHECK_DEADLOCK FALSE
