SPECIFICATION Spec
CONSTANTS
    None = None
    a = a
    ar = ar
    b = b
    d = d
INVARIANTS UnifiedYieldsNew ExactEdit SameWords FormatKept JailJudges
