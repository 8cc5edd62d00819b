CONSTANTS
    Lines <- MCLines
    ReadLens <- MCReadLens
    KBD_BUFFER_SIZE = 3
    Keys = {"a"}
    TickModulus = 1
SPECIFICATION FairKeyboardSpec
INVARIANTS
    ServiceMatchesFrames
    ByteAnnounced
    PopUndisturbed
    ShiftFollowsKeys
PROPERTIES
    QueueSpec
    BytesFetched
    CharsConsumed
CHECK_DEADLOCK FALSE
