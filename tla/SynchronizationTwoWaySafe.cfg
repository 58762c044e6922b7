SPECIFICATION Spec
CONSTANTS
    f1 = f1
    f2 = f2
    Paths <- ChainPaths
    Root = ""
    Above <- ChainAbove
    Files = {f1, f2}
    Links = {}
    Digest <- DistinctDigests
    Mode = "two-way-safe"
    Initial <- TwoWayInitial
    UserNodes = {"dir", f1, f2}
    MaxEdits = 2
    MaxFaults = 1
SYMMETRY Symmetry
INVARIANTS TypeOK ArchiveAccounted AncestorAlwaysValid
PROPERTIES SafeMergePromise
CHECK_DEADLOCK FALSE
