SPECIFICATION FederationSpec
CONSTANTS
    Names = {"src", "src2", "a.py"}
    Starts <- NameStarts
    Wild = {"*", "*.py"}
    Class <- Suffixes
    Dot = {"*"}
    MaxSegments = 3
    MaxHeld = 2

    Preps = {p1}
    GaSessions = {x1, x2}
    MaxAuth = 1  MaxGaCrashes = 1

    UsCalls = {x1, x2}
    UsThreshold = 2  UsLimit = 2  UsDelay = 1

    d1 = d1
    Caps = {c}
    Descriptors = {d1, d2}
    Absent = Absent
    RegKeys = {1, 2, 3}
    RegSessions = {x1, x2}
    MaxRefreshes = 2

    RgServers = {s1, s2}
    RgThin = {s1}
    RgRoots = {r1}
    RgSessions = {x1, x2}
    MaxInst = 2  MaxRgPolicy = 2  MaxRgRequests = 3

    LcTools = {t1, t2}
    LcVersions = {v1, v2}
    v1 = v1  v2 = v2
    LcSanitized <- SanitizedVersions
    NoTool = NoTool
    MaxLcGen = 3  MaxLcConns = 2  MaxLcQueue = 1

    UcBindings = {b1}
    UcFlows = {f1}
    UcTasks = {x1, x2}
    Issuers = {i1, i2}
    NoIssuer = NoIssuer  NoBinding = NoBinding
    MaxUcVersion = 3

    h1 = h1
    CgHashes = {h1, h2}
    CgGens = {g1, g2, g3}
    CgBuilders = {x1, x2}
CHECK_DEADLOCK FALSE
SYMMETRY Interchangeable
INVARIANTS FederationTypesOK ReservationsSound UpstreamSound 
           HeldRootsWereReviewed 
PROPERTIES  ImplementsGuardedAction AcknowledgedIsMirrored
