SPECIFICATION FairSpec
CONSTANTS
    f1 = f1
    f2 = f2
    f3 = f3
    base = base
    sub = sub
    above = above
    None = None
    Files = {f1, f2, f3}
    Threshold = 2
    WarnFiles = 1
    MaxCalls = 2
    Faults = {"tar killed", "transport lost"}
    AddsMeanwhile = FALSE
CHECK_DEADLOCK FALSE
INVARIANTS SuccessMeansWhole PushKept ShownBeforeLarge NoHeldChannel
PROPERTIES EveryTransferEnds
