CONSTANTS
    Conn = {c1}
    Main = main
    SetupRequests = 0
    AgentFwd = FALSE
    Resizes = FALSE
    MaxQueue = 1
SPECIFICATION Spec
INVARIANT ForwardingsShut
CHECK_DEADLOCK FALSE
