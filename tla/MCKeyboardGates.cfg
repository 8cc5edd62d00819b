CONSTANTS
    Lines <- MCLines
    ReadLens <- MCReadLens
    KBD_BUFFER_SIZE = 3
    Keys = {"a"}
    TickModulus = 1
SPECIFICATION KeyboardSpec
INVARIANT
    DeliveredThroughGates
CHECK_DEADLOCK FALSE
