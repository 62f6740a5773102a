SPECIFICATION SpecEither
CONSTANTS
    None = None
    f1 = f1
    f2 = f2
    f3 = f3
    Paths = {f1, f2, f3}
    Kinds = {"add", "update", "empty", "delete", "move"}
    MaxSections = 2
    MaxEdits = 1
    RmFails = FALSE
    Words = {1, 2, 3, 4}
    Inputs <- NativePatches
SYMMETRY Symmetry
INVARIANTS PatchApplied RemovesLast NativeYieldsNew SplicedInPlace
CHECK_DEADLOCK FALSE
