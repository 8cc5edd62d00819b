CONSTANTS
    Bytes <- MCBytes
    Content <- MCContent
    Names <- MCNames
    DriveOf <- MCDriveOf
    VGA_WIDTH = 2
    VGA_HEIGHT = 5
    FD_COUNT = 2
    LINE_SIZE = 4
    CAT_SIZE = 2
    LS_MAX = 1
    Printable = {"help", "clear", "ls", "cat", "cd", " ", "b:"}
SPECIFICATION FairShellSpec
INVARIANTS
    CursorShown
    LineOnScreen
    DescriptorsRestored
PROPERTIES
    CatWritesFile
    CommandsReturn
