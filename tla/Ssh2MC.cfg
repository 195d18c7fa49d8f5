CONSTANTS
    WinSize = 6
    Word = 32
    Preload = 0
    MaxExchange = 3
    MaxSent = 2
    AgentKeys = 1
    MaxPrompts = 2
    Banners = 1
    MaxForward = 2
    MaxWindow = 1
    MaxAccept = 1
    Preference <- DefaultList
    Offers <- SomeOffers
    MethodSets <- SomeMethods
    Configs <- SomeConfigs
    Wanted <- SomeWanted
SPECIFICATION MCSpec
INVARIANTS TypeOK WindowsAgree BacklogPaidFor LayersTypeOK
    LayersSound
PROPERTIES ServerNotStarved LayersProceed
CHECK_DEADLOCK FALSE
