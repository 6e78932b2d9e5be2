---------------------------- MODULE LeaseLedger ----------------------------
(***************************************************************************)
(* What AgentCoordinationService promises of leases, to whom only grants   *)
(* and ends are visible: a lease is granted once, beside no lease it       *)
(* clashes with and under a fencing token above all that its room ever     *)
(* saw, and when it ends it has ended.  AgentCoordination implements it.   *)
(***************************************************************************)
EXTENDS Naturals

CONSTANTS
    Leases,
    RoomOf,         \* lease -> its room
    Clashes         \* pairs of leases that may not be in force together

VARIABLES
    inForce,        \* leases granted and not ended
    ended,
    token           \* lease -> its fencing token, 0 before its grant

Init ==
    /\ inForce = {}
    /\ ended = {}
    /\ token = [l \in Leases |-> 0]

Grant(l) ==
    /\ l \notin inForce \cup ended
    /\ \A k \in inForce : <<k, l>> \notin Clashes
    /\ inForce' = inForce \cup {l}
    /\ token' = [token EXCEPT ![l] = token'[l]]
    /\ token'[l] \in Nat
    /\ \A k \in Leases : RoomOf[k] = RoomOf[l] => token[k] < token'[l]
    /\ UNCHANGED ended

\* One lease is released or revoked; an expiry ends several at once.
End(S) ==
    /\ inForce' = inForce \ S
    /\ ended' = ended \cup S
    /\ UNCHANGED token

Next == (\E l \in Leases : Grant(l)) \/ \E S \in SUBSET inForce : End(S)

Spec == Init /\ [][Next]_<<inForce, ended, token>>
=============================================================================
