SPECIFICATION Spec
CONSTANTS
    Window = 2
    Block = 1
    Data <- OneWay
    Sizes = {1}
    Deadlines = {}
    MayClose = {"a", "b"}
    MayFail = FALSE
INVARIANTS NoProtocolError InOrder EndIsComplete SignalsExact
CHECK_DEADLOCK FALSE
