CONSTANTS
    Conn = {c1, c2}
    None = None
    Options = {"agent","listen","remote","pty"}
    Limit = 1
    MaxUnits = 2
    MaxQueue = 1
    AgentKeys = 1
    PwLens = {1,3,6}
    MaxPrompts = 2
    Class = 4
    CipherLists <- Preferences
SPECIFICATION Spec
INVARIANTS TypeOK EndsAgree LoginSound
PROPERTY Proceeds
CHECK_DEADLOCK FALSE
