SPECIFICATION SessionsSpec
CONSTANTS
    r1 = r1  c1 = c1  p1 = p1  room = room
    alice = alice  bob = bob  carol = carol  x1 = x1  x2 = x2
    Requests = {r1}
    Commands = {c1}
    Policies = {p1}
    Scopes = {room}
    Voters = {alice, bob, carol}
    Admins = {bob}
    Proposer = alice
    Sessions = {x1, x2}
    CommandOf <- OneCommand
    PolicyOf <- OnePolicy
    Covers <- CoverAll
    Rule <- DestructiveRule
    MaxControlGeneration = 0
    MaxPolicyGeneration = 2

    CsActors = {x1, x2}
    MaxLines = 2

    o1 = o1  n1 = n1
    CcContexts = {n1, n2}
    CcOwners = {o1, o2}
    CcCodes = {k1, k2}
    CcSessions = {x1, x2}
    NoCode = NoCode
    CcTTL = 1  CcQuarantine = 1  CcRenew = 0
    MaxCcGen = 2  MaxCcTime = 2  MaxKeys = 2

    OaClients = {1, 2, 3}
    OaCodes = {1, 2, 3}
    OaSessions = {x1, x2}
    MaxOaGen = 3  MaxOperator = 2

    RtConns = {x1, x2}
    RtMsgs = {k1, k2}
    RtHandlers = {h1, h2}
    RtLimit = 1
CHECK_DEADLOCK FALSE
SYMMETRY Interchangeable
INVARIANTS SessionTypesOK PermitBackedByQuorum ChatContextsSound LineageSound RealtimeSound
 
