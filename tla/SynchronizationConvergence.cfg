SPECIFICATION FairSpec
CONSTANTS
    f1 = f1
    f2 = f2
    Paths <- ChainPaths
    Root = ""
    Above <- ChainAbove
    Files = {f1, f2}
    Links = {}
    Digest <- DistinctDigests
    Mode = "two-way-safe"
    Initial <- ChainInitial
    UserNodes = {"dir", f1, f2}
    MaxEdits = 1
    MaxFaults = 1
PROPERTIES Convergence
CHECK_DEADLOCK FALSE
