CONSTANTS
    Conn = {c1, c2}
    Main = main
    SetupRequests = 1
    AgentFwd = TRUE
    Resizes = TRUE
    MaxQueue = 1
SPECIFICATION Spec
INVARIANTS TypeOK MessagesFindOwner
SYMMETRY ConnSymmetry
CHECK_DEADLOCK FALSE
