SPECIFICATION FairHeapSpec
CONSTANTS
    FrameSize = 64
    TotalFrames = 8
    LowMemory = 64
    MbiSize = 16
    ModSize = 16
    Boots <- MCBoots
    HeaderSize = 12
    Alignment = 8
    MinSplit = 8
    InitPayload = 40
    Sizes = {0, 13, 60}
    Counts = {2, 40}
INVARIANTS
    BlocksTileFrames
    LiveBlocksBacked
    ReallocKeepsContents
PROPERTIES
    MergedAfterFree
    FailureMeansExhausted
    CallsReturn
    GrantsSpec
