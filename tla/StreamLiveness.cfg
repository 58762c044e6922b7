SPECIFICATION FairSpec
CONSTANTS
    Window = 2
    Block = 2
    Data <- OneWay
    Sizes = {1}
    Deadlines = {}
    MayClose = {"b"}
    MayFail = TRUE
PROPERTIES WriteReturns CloseReturns Delivered
CHECK_DEADLOCK FALSE
