SPECIFICATION FairSpec
CONSTANTS
    e1 = e1  e2 = e2  e3 = e3  s1 = s1  s2 = s2  f1 = f1  f2 = f2  f3 = f3
    t1 = t1  t2 = t2  t3 = t3
    None = None
    Execs = {e1, e2}
    Retryable = {e2}
    Streams = {}
    Sftps = {}
    Transports = {t1, t2}
    MaxChannels = 1
    MaxConnectionAttempts = 3
    MaxChannelOpenAttempts = 2
    ExecThrows = TRUE
PROPERTIES
    EveryCallSettles
