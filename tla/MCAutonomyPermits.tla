-------------------------- MODULE MCAutonomyPermits --------------------------
(* Instances of AutonomyPermits for TLC. *)
EXTENDS AutonomyPermits, TLC

CONSTANTS r1, c1, p1, room, alice, bob, carol, x1, x2

\* Destructive action: two approvals, one of them an administrator's.
DestructiveRule ==
    [r \in Requests |-> [quorum |-> 2, require_admin |-> TRUE, disallow_proposer |-> TRUE]]
\* One approval, by somebody else.
OneApproval ==
    [r \in Requests |-> [quorum |-> 1, require_admin |-> FALSE, disallow_proposer |-> TRUE]]
TwoApprovals ==
    [r \in Requests |-> [quorum |-> 2, require_admin |-> FALSE, disallow_proposer |-> FALSE]]

OneCommand    == [r \in Requests |-> c1]
OnePolicy     == [r \in Requests |-> p1]
CoverAll      == [s \in Scopes |-> Requests]
Replicas      == Permutations(Sessions)
=============================================================================
