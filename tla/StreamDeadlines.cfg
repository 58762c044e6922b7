SPECIFICATION Spec
CONSTANTS
    Window = 1
    Block = 2
    Data <- TwoBytes
    Sizes = {1}
    Deadlines = {"zero", "past", "future"}
    MayClose = {}
    MayFail = TRUE
INVARIANTS TypeOK SignalsExact
CHECK_DEADLOCK FALSE
