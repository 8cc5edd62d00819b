SPECIFICATION PMMSpec
CONSTANTS
    FrameSize = 4
    TotalFrames = 9
    LowMemory = 8
    MbiSize = 2
    ModSize = 1
    Boots <- MCBoots
INVARIANTS
    FreeCountExact
    FramesConserved
    NullMeansExhausted
