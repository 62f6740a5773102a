SPECIFICATION Spec
CONSTANTS
    c1 = c1
    c2 = c2
    c3 = c3
    f1 = f1
    f2 = f2
    None = None
    Empty = Empty
    Partial = Partial
    Calls = {c1, c2}
    Files = {f1, f2}
    Requests <- EditsOfTwoFiles
    MaxVersion = 4
    MaxEdits = 1
    StampOf <- FineStamps
    StatFails = {f1, f2}
    Windows = {}
    Overlapping = {"write", "edit", "read", "patch", "delete"}
    MovesBack = FALSE
INVARIANTS SuccessMeansWritten
