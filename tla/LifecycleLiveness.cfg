SPECIFICATION FairSpec
CONSTANTS
    Clients = {a, b}
    Operations = {"flush", "pause", "terminate", "shutdown"}
    Watched = FALSE
    MayCrash = FALSE
    MayFailToSave = FALSE
PROPERTIES OperationsReturn
CHECK_DEADLOCK FALSE
