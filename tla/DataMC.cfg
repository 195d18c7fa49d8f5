CONSTANTS
    Granule = 3
    MaxBytes = 7
    MaxAdd = 7
    Sorted = {1, 2, 3, 4, 5, 6, 7, 8, 9, 10}
    Unsorted = {1, 2}
    MaxElems = 7
    WinSize = 4
    HashMax = 3
    MaxMatch = 2
    MaxStored = 2
    Packets <- AllPackets
    Stored <- AllStored
    MatchLens <- AllLens
    Distances <- AllDistances
    Streams <- AllStreams
    WordBits = 2
SPECIFICATION MCSpec
INVARIANTS StructuresSound ConversionsRight
PROPERTIES StructuresRefine
CHECK_DEADLOCK FALSE
