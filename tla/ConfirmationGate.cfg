SPECIFICATION Spec
CONSTANTS
    Calls = {c1, c2, c3}
    Targets = {asked, unasked}
    Commands = {o1}
    Transfers = {o2}
    Prompting = {asked}
    TTL = 2
    MaxTime = 4
    None = None
INVARIANTS OneRunPerPreflight OnlyTheUserDecides
PROPERTIES RunsWhileFresh
