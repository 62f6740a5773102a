SPECIFICATION AnsweredSpec
CONSTANTS
    e1 = e1  e2 = e2  e3 = e3  s1 = s1  s2 = s2  f1 = f1  f2 = f2  f3 = f3
    t1 = t1  t2 = t2  t3 = t3
    None = None
    Execs = {}
    Retryable = {}
    Streams = {s1}
    Sftps = {f1, f2}
    Transports = {t1, t2}
    MaxChannels = 1
    MaxConnectionAttempts = 2
    MaxChannelOpenAttempts = 2
    ExecThrows = FALSE
INVARIANTS SessionOnClient SftpSerialised
PROPERTIES
    EveryCallSettles
