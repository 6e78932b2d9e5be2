SPECIFICATION Spec
CONSTANTS
    r1 = r1  c1 = c1  p1 = p1  room = room
    alice = alice  bob = bob  carol = carol  x1 = x1  x2 = x2
    Requests = {r1}
    Commands = {c1}
    Policies = {p1}
    Scopes = {room}
    Voters = {bob, carol}
    Admins = {bob}
    Proposer = alice
    Sessions = {x1, x2}
    CommandOf <- OneCommand
    PolicyOf <- OnePolicy
    Covers <- CoverAll
    Rule <- TwoApprovals
    MaxControlGeneration = 0
    MaxPolicyGeneration = 1
CHECK_DEADLOCK FALSE
SYMMETRY Replicas
INVARIANT QuorumDecides
