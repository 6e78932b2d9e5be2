SPECIFICATION ClientsSpec
CONSTANTS
    TcConns = {k1, k2}
    TcReqs = {q1}
    NoConn = NoConn
    MaxRestarts = 1

    TkCalls = {k1, k2}
    NoHash = NoHash  Untouched = Untouched
    MaxTkCrashes = 1

    Spaces = {k1, k2}
    DkTasks = {x1, x2}
    NoSpace = NoSpace

    TpItems = {k1, k2}
    Callers = {"refresh", "cancel"}
    MaxTpWrites = 2  MaxTpStamp = 2

    RdProbes = {q1}
    RdMaxStale = 1  RdProbeTime = 1  RdLag = 1  RdMaxTime = 4

    RnKeys = {k1, k2}
    NewNote = NewNote  RnProcs = {x1, x2}
    NoNote = NoNote  Nobody = Nobody
    MaxSends = 2  MaxSaves = 1  MaxRnCrashes = 1

    PfChannels = {c1}
    PfBundles = {k1, k2}  PfCalls = {k1, k2}
    PfLimits = {0, 2}
    PfFresh = 1  PfMaxStale = 1  PfTravel = 1
    NoEntry = NoEntry
    PfOld = 2  PfMaxChanges = 2
CHECK_DEADLOCK FALSE
SYMMETRY Interchangeable
INVARIANTS ClientTypesOK ThinClientsSound FilesSound WorkspacesSound ProgressSound CachesSound
