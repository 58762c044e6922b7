SPECIFICATION Spec
CONSTANTS
    f1 = f1
    f2 = f2
    Paths <- ChainPaths
    Root = ""
    Above <- ChainAbove
    Files = {f1, f2}
    Links = {}
    Digest <- DistinctDigests
    Mode = "one-way-safe"
    Initial <- TwoWayInitial
    UserNodes = {"dir", f2, "untracked"}
    MaxEdits = 2
    MaxFaults = 1
INVARIANTS AncestorAlwaysValid
PROPERTIES NoUnagreedLoss AlphaUntouched
CHECK_DEADLOCK FALSE
