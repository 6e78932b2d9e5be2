SPECIFICATION AccountingSpec
CONSTANTS
    Events = {e1, e2}
    Publishers = {p1, p2}
    Operators = {o1}
    Tokens = {t1, t2, t3}
    NoToken = NoToken  NoCopy = NoCopy
    MaxAttempts = 2  BatchSize = 2
    MaxCrashes = 0  MaxSlow = 1  MaxOps = 1

    UlCallbacks = {c1}
    UlVariants = {e1, e2}
    UlTasks = {p1, p2}

    TrCalls = {e1, e2}
    TrFlushers = {p1, p2}
    TrLimit = 2  TrAttempts = 2  MaxTrStops = 1

    ChEvents = {e1, e2}
    ChBatches = {b1, b2}
    ChRuns = {p1, p2}
    ChAdmins = {o1}
    ChReaders = {q1}
    MaxReplays = 1
CHECK_DEADLOCK FALSE
SYMMETRY Interchangeable
INVARIANTS AccountingTypesOK HistoryTrue UsageSound TrafficSound ColdHistorySound
