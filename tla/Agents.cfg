SPECIFICATION AgentsSpec
CONSTANTS
    l1 = l1  l2 = l2  l3 = l3  room = room
    readme = readme  tree1 = tree1  tree2 = tree2  x1 = x1  x2 = x2
    NoTree = NoTree  NoLease = NoLease
    Leases = {l1, l2}
    Rooms = {room}
    Paths = {}
    Sessions = {x1, x2}
    Claim <- Contended
    Overlap <- SameArea
    Covers <- AreaPaths
    Handoffs = {"h"}
    Source <- FirstLease
    Integrations = {"i"}
    Sources <- FirstTwo
    MaxVersion = 2

    Members = {m1, m2}
    MsgKeys = {k1, k2}
    RoomSessions = {x1, x2}
    NoSession = NoSession

    Agents = {m1, m2}
    Commands = {c1, c2}
    NeedsApproval = {c1}
    CmdSessions = {x1, x2}

    i1 = i1  i2 = i2  w1 = w1  w2 = w2
    Items = {i1, i2}
    ItemDeps <- ItemChain
    Workers = {w1, w2}
    Suits <- WhoSuits
    NoWorker = NoWorker  NoItem = NoItem
    WorkSessions = {x1, x2}
    Assignments = {s1}
    AgentStates <- IdleAgents
    MaxParallel = 1  MaxItemVersion = 3  MaxPolicyGen = 2

    RecLoops = {l1}
    RecWorkers = {x1, x2}
    RecRequests = {q1}
    RecMaxAttempts = 2  RecMaxGen = 2  RecMaxCrashes = 1
CHECK_DEADLOCK FALSE
SYMMETRY Interchangeable
INVARIANTS AgentTypesOK ExclusiveLeases CoordinationEvidence CollaborationSound RecoverySound
PROPERTIES LeaseHistory WorkItemsSound
