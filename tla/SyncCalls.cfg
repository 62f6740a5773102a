SPECIFICATION FairSpec
CONSTANTS
    c1 = c1
    c2 = c2
    c3 = c3
    f1 = f1
    f2 = f2
    None = None
    Empty = Empty
    Partial = Partial
    Calls = {c1, c2}
    Files = {f1, f2}
    Requests <- Rewriting
    MaxVersion = 5
    MaxEdits = 1
    StampOf <- FineStamps
    StatFails = {f1}
    Windows = {"guarded"}
    Overlapping = {"edit"}
    MovesBack = FALSE
CONSTRAINT InOrder
INVARIANTS SuccessMeansWritten
PROPERTIES NoLostUpdate EveryCallEnds
