------------------------- MODULE MCAgentCoordination -------------------------
(* Instances of AgentCoordination for TLC. *)
EXTENDS AgentCoordination, TLC

CONSTANTS l1, l2, l3, room, readme, tree1, tree2, x1, x2

Want(r, m, a, t) == [room |-> r, mode |-> m, area |-> a, tree |-> t]

\* Two exclusive leases on one area in different worktrees, and a third that
\* shares only the worktree of the first.
Contended ==
    [l \in Leases |->
        CASE l = l1 -> Want(room, "exclusive_write", "docs", tree1)
          [] l = l2 -> Want(room, "exclusive_write", "docs", tree2)
          [] l = l3 -> Want(room, "exclusive_write", "src", tree1)]

\* A writer and a reader of the same files.
Mixed ==
    [l \in Leases |->
        CASE l = l1 -> Want(room, "exclusive_write", "docs", tree1)
          [] l = l2 -> Want(room, "shared_read", "docs", NoTree)]

\* Two writers of the same files, one after the other.
Successors == [l \in Leases |-> Want(room, "exclusive_write", "docs", tree1)]

SameArea   == {<<"docs", "docs">>, <<"src", "src">>}
AreaPaths  == [l \in Leases |-> IF Claim[l].area = "docs" THEN Paths ELSE {}]
FirstLease == [h \in Handoffs |-> l1]
FirstTwo   == [i \in Integrations |-> {l1, l2}]
Replicas   == Permutations(Sessions)
=============================================================================
