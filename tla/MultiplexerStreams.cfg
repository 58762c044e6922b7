SPECIFICATION Spec
CONSTANTS
    MaxIdentifier = 3
    Backlog = 1
    Buffers = 1
    MaxOpening = 1
    MaxAccepting = 1
    Openers = {"odd"}
    Senders = {"odd"}
    MayCancel = TRUE
    MayFail = FALSE
INVARIANTS TypeOK NoProtocolError AcceptedStreams
CHECK_DEADLOCK FALSE
