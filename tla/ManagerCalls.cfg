SPECIFICATION FairSpec
CONSTANTS
    Targets = {t1, t2}
    Calls = {c1, c2, c3}
    Main = Main
    MirrorOf <- OwnMirrors
    Cooldown = 1
    SaveFails = TRUE
    MaxTime = 3
    None = None
INVARIANTS OneAttempt RetryIsLive
PROPERTIES CooldownKept JoinersAnswered
