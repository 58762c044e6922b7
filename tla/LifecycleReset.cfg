SPECIFICATION Spec
CONSTANTS
    Clients = {a, b}
    Operations = {"reset", "terminate"}
    Watched = TRUE
    MayCrash = FALSE
    MayFailToSave = FALSE
INVARIANTS TerminatedWiped
CHECK_DEADLOCK FALSE
