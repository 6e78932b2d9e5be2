SPECIFICATION SettlesSpec
CONSTANTS
    Events = {e1}
    Publishers = {p1, p2}
    Operators = {o1}
    Tokens = {t1, t2, t3}
    NoToken = NoToken  NoCopy = NoCopy
    MaxAttempts = 2  BatchSize = 1
    MaxCrashes = 1  MaxSlow = 1  MaxOps = 1

    RecLoops = {l1}
    RecWorkers = {w1, w2}
    RecRequests = {q1}
    RecMaxAttempts = 2  RecMaxGen = 1  RecMaxCrashes = 1

    TcConns = {k1}
    TcReqs = {q1}
    NoConn = NoConn
    MaxRestarts = 1

    TrCalls = {e1, e2}
    TrFlushers = {f1}
    TrLimit = 1  TrAttempts = 2  MaxTrStops = 1
CHECK_DEADLOCK FALSE
PROPERTIES EventuallySettled WorkersSettle
