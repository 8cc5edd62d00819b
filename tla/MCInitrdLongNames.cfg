CONSTANTS
    BLOCK = 4
    NAME_SIZE = 3
    WORD = 64
    Modules <- LongNames
    ListPrefixes <- MCPrefixes
    LS_BUFFER = 2
    DEMO_BUFFER = 2
    LS_MAX = 2
    DEMO_MAX = 2
SPECIFICATION InitrdSpec
INVARIANTS
    MembersOpen
CHECK_DEADLOCK FALSE
