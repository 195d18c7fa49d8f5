CONSTANTS
    Channel = {c1, c2}
    MaxBacklog = 2
    MaxCost = 2
    MaxQueue = 4
    MaxRead = 2
    MaxWindow = 2
    c1 = c1
    c2 = c2
    Conn = {c1}
    Main = main
    SetupRequests = 0
    AgentFwd = TRUE
    Resizes = TRUE
    MaxMessages = 2
SPECIFICATION MCSpec
INVARIANTS TypeOK ThrottleMatchesBacklog FrozenForAReason BufferBounded SocketsMatchChannels
PROPERTIES SocketThaws ClosesEnd
CHECK_DEADLOCK FALSE
