SPECIFICATION FairSpec
CONSTANTS
    MaxIdentifier = 2
    Backlog = 1
    Buffers = 1
    MaxOpening = 1
    MaxAccepting = 1
    Openers = {"odd"}
    Senders = {"even"}
    MayCancel = TRUE
    MayFail = TRUE
INVARIANTS NoProtocolError
PROPERTIES OpenReturns ClosureNoticed
CHECK_DEADLOCK FALSE
