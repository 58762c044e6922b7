SPECIFICATION Spec
CONSTANTS
    Clients = {a, b}
    Operations = {"flush", "flushNoWait", "pause", "resume", "reset", "terminate", "shutdown"}
    Watched = TRUE
    MayCrash = TRUE
    MayFailToSave = TRUE
INVARIANTS TypeOK LoopTracked LoopAllowed EndpointsOwned ResetHonoured FlushHonest AcknowledgedKept
SYMMETRY ClientSymmetry
