SPECIFICATION Spec
CONSTANTS
    Uploads = 3
    Absent = Absent
    Partial = Partial
INVARIANTS TypeOK CurrentSurvives
PROPERTIES ReplacesAtomically
