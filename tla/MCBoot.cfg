SPECIFICATION BootSpec
CONSTANTS
    FrameSize = 32
    TotalFrames = 16
    LowMemory = 32
    MbiSize = 16
    ModSize = 8
    Boots <- MCBoots
    HeaderSize = 4
    Alignment = 4
    MinSplit = 4
    InitPayload = 4
    Sizes = {}
    Counts = {}
    PAGE_SIZE = 32
    PAGE_ENTRIES = 4
    PAGING_TABLE_COUNT = 2
    WORD = 512
    MapSizes = {187, 256, 500}
    EHDR_SIZE = 4
    PHDR_SIZE = 2
    Disks <- MCDisks
    Flags <- MCFlags
    TestA = 4
    TestB = 8
    TestC = 2
    EntrySize = 8
    MaxImages = 2
INVARIANTS
    ImagesFaithful
    TableInsideFile
    DirectInPlace
    BlocksAccounted
    FailuresHaveCauses
    FaultsOnlyBeyondMap
PROPERTIES
    IdentityExact
    BootEnds
CHECK_DEADLOCK FALSE
