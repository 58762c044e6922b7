SPECIFICATION Spec
CONSTANTS
    f1 = f1
    f2 = f2
    Paths <- FlatPaths
    Root = ""
    Above <- FlatAbove
    Files = {f1, f2}
    Links = {}
    Digest <- DistinctDigests
    Mode = "two-way-resolved"
    Initial <- FlatInitial
    UserNodes = {"dir", f1, f2}
    MaxEdits = 2
    MaxFaults = 1
SYMMETRY Symmetry
INVARIANTS EmptiedRootSpared
PROPERTIES RootPreserved
CHECK_DEADLOCK FALSE
