CONSTANTS
    Bytes <- MCBytes
    Content <- MCContent
    Paths <- MCPaths
    Offsets <- MCOffsets
    Lens = {0, 1, 2, 5}
    FD_COUNT = 2
    TestPath = "f"
    TestLen = 2
SPECIFICATION SelfTestSpec
PROPERTY
    ExitTerminates
