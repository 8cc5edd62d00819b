CONSTANTS
    BLOCK = 4
    NAME_SIZE = 3
    WORD = 64
    Modules <- MCModules
    ListPrefixes <- MCPrefixes
    LS_BUFFER = 2
    DEMO_BUFFER = 2
    LS_MAX = 2
    DEMO_MAX = 2
SPECIFICATION FairInitrdSpec
INVARIANTS
    IndexMatchesArchive
    PayloadsDisjoint
    ListedFilesOpen
    QueriesTruthful
    LsFaithful
PROPERTY
    InitrdReturns
CHECK_DEADLOCK FALSE
