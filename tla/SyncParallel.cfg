SPECIFICATION Spec
CONSTANTS
    c1 = c1
    c2 = c2
    c3 = c3
    f1 = f1
    f2 = f2
    None = None
    Empty = Empty
    Partial = Partial
    Calls = {c1, c2}
    Files = {f1}
    Requests <- OneFile
    MaxVersion = 4
    MaxEdits = 1
    StampOf <- FineStamps
    StatFails = {f1}
    Windows = {"copying", "copied", "guarded", "put", "swapped"}
    Overlapping = {"write", "edit", "read", "patch", "delete"}
    MovesBack = TRUE
SYMMETRY Symmetry
INVARIANTS StampMeansSeen
PROPERTIES NoBlindOverwrite
