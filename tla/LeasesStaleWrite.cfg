SPECIFICATION Spec
CONSTANTS
    l1 = l1  l2 = l2  l3 = l3  room = room
    readme = readme  tree1 = tree1  tree2 = tree2  x1 = x1  x2 = x2
    NoTree = NoTree  NoLease = NoLease
    Leases = {l1, l2}
    Rooms = {room}
    Paths = {readme}
    Sessions = {x1, x2}
    Claim <- Successors
    Overlap <- SameArea
    Covers <- AreaPaths
    Handoffs = {}
    Source <- FirstLease
    Integrations = {}
    Sources <- FirstTwo
    MaxVersion = 2
SYMMETRY Replicas
INVARIANT NoWriteIntoAnothersLease
