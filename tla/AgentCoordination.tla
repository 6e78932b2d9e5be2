-------------------------- MODULE AgentCoordination --------------------------
(***************************************************************************)
(* AgentCoordinationService: resource leases with fencing tokens, the      *)
(* guarded file writes that rely on them, handoff barriers and integration *)
(* records.                                                                *)
(*                                                                         *)
(* Handlers of several replicas run against one database.  acquire_lease   *)
(* holds the room row FOR UPDATE from its conflict check to its commit, so *)
(* it is a locking step and a commit step.  Handlers that hold the one row *)
(* they write FOR UPDATE (renew, release, handoff, integration) are single *)
(* steps.  expire_stale_leases reads without a lock and overwrites what it *)
(* read: a read step and a commit step, run first by acquire, renew, list  *)
(* and every guarded write.  A write then asks the thin client twice       *)
(* (file_state, write_file) and only then records the change.              *)
(***************************************************************************)
EXTENDS Naturals, FiniteSets

CONSTANTS
    Leases,         \* leases, one per acquire request (idempotency key)
    Rooms, Paths,
    Sessions,       \* database sessions of all replicas
    Claim,          \* lease -> [room, mode, area, tree]: what it asks for
    Overlap,        \* pairs of areas for which reservation_sets_overlap holds
    Covers,         \* lease -> the paths its reservations cover in its worktree
    NoTree,         \* no branch and worktree (shared_read leases)
    NoLease,        \* a write without lease context
    Handoffs, Source,       \* handoff -> the lease it hands over
    Integrations, Sources,  \* integration -> its source leases
    MaxVersion      \* bound on file versions and integration versions

Modes == {"exclusive_write", "shared_read"}

ASSUME ConstantsAssumption ==
    /\ NoLease \notin Leases
    /\ DOMAIN Claim = Leases
    /\ \A l \in Leases : Claim[l].room \in Rooms /\ Claim[l].mode \in Modes
    /\ Covers \in [Leases -> SUBSET Paths]
    /\ Source \in [Handoffs -> Leases]
    /\ Sources \in [Integrations -> SUBSET Leases]
    /\ MaxVersion \in Nat
    /\ \A pr \in Overlap : <<pr[2], pr[1]>> \in Overlap

VARIABLES
    lease,          \* ResourceLease rows
    lapsed,         \* leases whose expires_at has passed
    roomLock,       \* room -> the sessions holding its row FOR UPDATE
    file,           \* path -> version of its content on the thin client
    landed,         \* history: writes applied, with the leases then in force
    changes,        \* FileChangeSet rows
    handoff,        \* AgentHandoffBarrier rows
    integration,    \* AgentIntegrationRecord rows
    tx              \* progress of each open request

vars == <<lease, lapsed, roomLock, file, landed, changes, handoff, integration, tx>>

files    == <<file, landed, changes>>
evidence == <<handoff, integration>>

-----------------------------------------------------------------------------
(* Types *)

LeaseStatuses       == {"none", "active", "released", "revoked", "expired"}
HandoffStatuses     == {"none", "open", "ready", "blocked", "accepted"}
IntegrationStatuses == {"none", "review", "blocked", "approved", "integrated", "rejected"}
IntegrationTerminal == {"integrated", "rejected"}

Write == [lease: Leases \cup {NoLease}, path: Paths]

Goals == [op: {"acquire", "renew"}, lease: Leases]
    \cup [op: {"write"}, lease: Leases \cup {NoLease}, path: Paths, expected: Nat]
    \cup {[op |-> "list"]}

Idle == [op |-> "idle"]
Tx   == {Idle} \cup Goals
   \cup [op: {"expire"}, seen: SUBSET Leases, goal: Goals]
   \cup [op: {"acquiring"}, lease: Leases, token: Nat]
   \cup [op: {"checked", "ready", "done"}, lease: Leases \cup {NoLease}, path: Paths,
         expected: Nat]

TypeOK ==
    /\ lease \in [Leases -> [status: LeaseStatuses, token: Nat]]
    /\ lapsed \in SUBSET Leases
    /\ roomLock \in [Rooms -> {{}} \cup {{x} : x \in Sessions}]   \* one holder
    /\ file \in [Paths -> Nat]
    /\ landed \in SUBSET [lease: Leases \cup {NoLease}, path: Paths, expected: Nat,
                         version: Nat, inForce: SUBSET Leases]
    /\ changes \in SUBSET Write
    /\ handoff \in [Handoffs -> HandoffStatuses]
    /\ integration \in [Integrations ->
           [status: IntegrationStatuses, safe: BOOLEAN, version: Nat]]
    /\ tx \in [Sessions -> Tx]

Init ==
    /\ lease = [l \in Leases |-> [status |-> "none", token |-> 0]]
    /\ lapsed = {}
    /\ roomLock = [r \in Rooms |-> {}]
    /\ file = [p \in Paths |-> 0]
    /\ landed = {} /\ changes = {}
    /\ handoff = [h \in Handoffs |-> "none"]
    /\ integration = [i \in Integrations |-> [status |-> "none", safe |-> FALSE, version |-> 0]]
    /\ tx = [x \in Sessions |-> Idle]

-----------------------------------------------------------------------------
(* Helpers *)

Room(l) == Claim[l].room

Active == {l \in Leases : lease[l].status = "active"}

Conflict(k, l) ==
    /\ ~(Claim[k].mode = "shared_read" /\ Claim[l].mode = "shared_read")
    /\ \/ <<Claim[k].area, Claim[l].area>> \in Overlap
       \/ Claim[k].tree = Claim[l].tree /\ Claim[l].tree # NoTree

\* Mutant: the next token is taken from the leases still active.
NextTokenOfActive(r) ==
    1 + CHOOSE n \in {0} \cup {lease[k].token : k \in {k \in Active : Room(k) = r}} :
            \A k \in Active : Room(k) = r => lease[k].token <= n

\* max(fencing_token) of the room, or 0, plus 1.
NextToken(r) ==
    1 + CHOOSE n \in {0} \cup {lease[k].token : k \in {k \in Leases : Room(k) = r}} :
            \A k \in Leases : Room(k) = r => lease[k].token <= n

\* covering_leases: it does not look at the room.
Covering(p) == {l \in Active : Claim[l].mode = "exclusive_write" /\ p \in Covers[l]}

Begin(x, t) == tx[x] = Idle /\ tx' = [tx EXCEPT ![x] = t]
Goto(x, t)  == tx' = [tx EXCEPT ![x] = t]

Unlocked(x) == [r \in Rooms |-> roomLock[r] \ {x}]

\* An error response, a lost connection or a dying replica: locks are freed,
\* nothing the open transaction did is kept.
Rollback(x) ==
    /\ tx[x] # Idle
    /\ Goto(x, Idle)
    /\ roomLock' = Unlocked(x)
    /\ UNCHANGED <<lease, lapsed, files, evidence>>

-----------------------------------------------------------------------------
(* expire_stale_leases, the first transaction of the request goal *)

ExpireRead(x, goal) ==
    /\ Begin(x, [op |-> "expire", seen |-> Active \cap lapsed, goal |-> goal])
    /\ UNCHANGED <<lease, lapsed, roomLock, files, evidence>>

ExpireCommit(x) ==
    /\ tx[x].op = "expire"
    /\ lease' = [l \in Leases |->
           IF l \in tx[x].seen THEN [lease[l] EXCEPT !.status = "expired"] ELSE lease[l]]
    /\ Goto(x, IF tx[x].goal.op = "list" THEN Idle ELSE tx[x].goal)
    /\ UNCHANGED <<lapsed, roomLock, files, evidence>>

\* Mutant: the room row is read without FOR UPDATE.
AcquireLockShared(x, l) ==
    /\ tx[x].op = "acquire" /\ tx[x].lease = l
    /\ \A k \in Active : Room(k) = Room(l) => ~Conflict(k, l)
    /\ roomLock' = [roomLock EXCEPT ![Room(l)] = @ \cup {x}]
    /\ Goto(x, [op |-> "acquiring", lease |-> l, token |-> NextToken(Room(l))])
    /\ UNCHANGED <<lease, lapsed, files, evidence>>

(* acquire_lease *)

AcquireLock(x, l) ==
    /\ tx[x].op = "acquire" /\ tx[x].lease = l
    /\ roomLock[Room(l)] = {}
    /\ \A k \in Active : Room(k) = Room(l) => ~Conflict(k, l)
    /\ roomLock' = [roomLock EXCEPT ![Room(l)] = {x}]
    /\ Goto(x, [op |-> "acquiring", lease |-> l, token |-> NextToken(Room(l))])
    /\ UNCHANGED <<lease, lapsed, files, evidence>>

AcquireCommit(x, l) ==
    /\ tx[x].op = "acquiring" /\ tx[x].lease = l
    /\ lease[l].status = "none"
    /\ lease' = [lease EXCEPT ![l] = [status |-> "active", token |-> tx[x].token]]
    /\ roomLock' = Unlocked(x)
    /\ Goto(x, Idle)
    /\ UNCHANGED <<lapsed, files, evidence>>

(* renew_lease *)

Renew(x, l) ==
    /\ tx[x].op = "renew" /\ tx[x].lease = l
    /\ lease[l].status = "active"
    /\ lapsed' = lapsed \ {l}
    /\ Goto(x, Idle)
    /\ UNCHANGED <<lease, roomLock, files, evidence>>

(* release_lease: by the holder, or forced by a coordinator *)

Release(l, forced) ==
    /\ lease[l].status = "active"
    /\ lease' = [lease EXCEPT ![l].status = IF forced THEN "revoked" ELSE "released"]
    /\ UNCHANGED <<lapsed, roomLock, files, evidence, tx>>

-----------------------------------------------------------------------------
(* write_file under a lease: validate_write_context, file_state, write_file, *)
(* _persist_file_change                                                      *)

WriteCheck(x) ==
    /\ tx[x].op = "write"
    /\ \/ /\ tx[x].lease \in Covering(tx[x].path)
          /\ Goto(x, [tx[x] EXCEPT !.op = "checked"])
       \/ /\ tx[x].lease = NoLease /\ Covering(tx[x].path) = {}
          /\ Goto(x, [tx[x] EXCEPT !.op = "ready"])
    /\ UNCHANGED <<lease, lapsed, roomLock, files, evidence>>

\* Mutant: the answer to file_state is not compared with the precondition.
WriteStateUnchecked(x) ==
    /\ tx[x].op = "checked"
    /\ Goto(x, [tx[x] EXCEPT !.op = "ready"])
    /\ UNCHANGED <<lease, lapsed, roomLock, files, evidence>>

WriteState(x) ==
    /\ tx[x].op = "checked"
    /\ file[tx[x].path] = tx[x].expected        \* expected_sha256, expected_absent
    /\ Goto(x, [tx[x] EXCEPT !.op = "ready"])
    /\ UNCHANGED <<lease, lapsed, roomLock, files, evidence>>

WriteApply(x) ==
    /\ tx[x].op = "ready"
    /\ file[tx[x].path] < MaxVersion
    /\ file' = [file EXCEPT ![tx[x].path] = @ + 1]
    /\ landed' = landed \cup {[lease |-> tx[x].lease, path |-> tx[x].path,
                               expected |-> tx[x].expected, version |-> file[tx[x].path] + 1,
                               inForce |-> Covering(tx[x].path)]}
    /\ Goto(x, [tx[x] EXCEPT !.op = "done"])
    /\ UNCHANGED <<lease, lapsed, roomLock, changes, evidence>>

WritePersist(x) ==
    /\ tx[x].op = "done"
    /\ changes' = changes \cup {[lease |-> tx[x].lease, path |-> tx[x].path]}
    /\ Goto(x, Idle)
    /\ UNCHANGED <<lease, lapsed, roomLock, file, landed, evidence>>

-----------------------------------------------------------------------------
(* Handoff barriers; the conflict report is an input *)

CreateHandoff(h) ==
    /\ handoff[h] = "none"
    /\ lease[Source[h]].status = "active"
    /\ handoff' = [handoff EXCEPT ![h] = "open"]
    /\ UNCHANGED <<lease, lapsed, roomLock, files, integration, tx>>

MarkHandoffReady(h) ==
    /\ handoff[h] \in {"open", "ready", "blocked"}
    /\ handoff' = [handoff EXCEPT ![h] = "ready"]
    /\ UNCHANGED <<lease, lapsed, roomLock, files, integration, tx>>

\* Mutant: the source lease is not looked at.
AcceptHandoffEarly(h, safe) ==
    /\ handoff[h] = "ready"
    /\ handoff' = [handoff EXCEPT ![h] = IF safe THEN "accepted" ELSE "blocked"]
    /\ UNCHANGED <<lease, lapsed, roomLock, files, integration, tx>>

AcceptHandoff(h, safe) ==
    /\ handoff[h] = "ready"
    /\ lease[Source[h]].status # "active"
    /\ handoff' = [handoff EXCEPT ![h] = IF safe THEN "accepted" ELSE "blocked"]
    /\ UNCHANGED <<lease, lapsed, roomLock, files, integration, tx>>

(* Integration records *)

CreateIntegration(i, safe) ==
    /\ integration[i].status = "none"
    /\ \A l \in Sources[i] : lease[l].status \notin {"none", "active"}
    /\ integration' = [integration EXCEPT ![i] =
           [status |-> IF safe THEN "review" ELSE "blocked", safe |-> safe, version |-> 1]]
    /\ UNCHANGED <<lease, lapsed, roomLock, files, handoff, tx>>

\* The caller's expected_version is current; headCurrent: the observed target
\* head is the expected one.
CompleteIntegration(i, st, headCurrent) ==
    /\ integration[i].status \notin IntegrationTerminal \cup {"none"}
    /\ st \in {"approved", "integrated"} => integration[i].safe /\ headCurrent
    /\ integration[i].version < MaxVersion
    /\ integration' = [integration EXCEPT ![i].status = st, ![i].version = @ + 1]
    /\ UNCHANGED <<lease, lapsed, roomLock, files, handoff, tx>>

-----------------------------------------------------------------------------
Lapse(l) ==
    /\ l \in Active \ lapsed
    /\ lapsed' = lapsed \cup {l}
    /\ UNCHANGED <<lease, roomLock, files, evidence, tx>>

Request(x) ==
    \/ \E l \in Leases :
          \/ lease[l].status = "none" /\ ExpireRead(x, [op |-> "acquire", lease |-> l])
          \/ ExpireRead(x, [op |-> "renew", lease |-> l])
    \/ \E l \in Leases \cup {NoLease}, p \in Paths :
          ExpireRead(x, [op |-> "write", lease |-> l, path |-> p, expected |-> file[p]])
    \/ ExpireRead(x, [op |-> "list"])

SessionStep(x) ==
    \/ Request(x) \/ ExpireCommit(x) \/ Rollback(x)
    \/ \E l \in Leases : AcquireLock(x, l) \/ AcquireCommit(x, l) \/ Renew(x, l)
    \/ WriteCheck(x) \/ WriteState(x) \/ WriteApply(x) \/ WritePersist(x)

RowStep ==
    \/ \E l \in Leases : Lapse(l) \/ \E forced \in BOOLEAN : Release(l, forced)
    \/ \E h \in Handoffs :
          CreateHandoff(h) \/ MarkHandoffReady(h) \/ \E safe \in BOOLEAN : AcceptHandoff(h, safe)
    \/ \E i \in Integrations :
          \/ \E safe \in BOOLEAN : CreateIntegration(i, safe)
          \/ \E st \in {"approved", "integrated", "rejected"}, head \in BOOLEAN :
                CompleteIntegration(i, st, head)

Next == (\E x \in Sessions : SessionStep(x)) \/ RowStep

Spec == Init /\ [][Next]_vars

-----------------------------------------------------------------------------
(* Properties *)

\* Two active leases of a room never conflict, although expiries are written
\* from stale reads and acquire requests of all replicas overlap
\* (acquire_lease, expire_stale_leases, renew_lease).
ExclusiveLeases ==
    \A k, l \in Active : k # l /\ Room(k) = Room(l) => ~Conflict(k, l)

\* The fencing token of a new lease exceeds that of every lease the room ever
\* had, including those that ended while the request was waiting for the room
\* (acquire_lease).
TokensIncrease ==
    [][\A l \in Leases : lease[l].status = "none" /\ lease'[l].status # "none" =>
          \A k \in Leases : Room(k) = Room(l) => lease[k].token < lease'[l].token]_vars

\* A lease that ended is never active again: a renewal that races the expiry
\* loses (renew_lease, expire_stale_leases).
EndedLeaseStaysEnded ==
    [][\A l \in Leases : lease[l].status \in {"released", "revoked", "expired"} =>
          lease'[l].status \in {"released", "revoked", "expired"}]_vars

\* A handoff is accepted only when the source lease has ended, for good: no
\* renewal or late commit revives it under the new holder (accept_handoff).
HandoffAfterRelease ==
    \A h \in Handoffs : handoff[h] = "accepted" =>
        lease[Source[h]].status \in {"released", "revoked", "expired"}

\* A record that is approved or integrated has no hard conflicts and none of
\* its source leases can still change the evidence (create_integration,
\* complete_integration).
IntegrationSound ==
    \A i \in Integrations : integration[i].status \in {"approved", "integrated"} =>
        /\ integration[i].safe
        /\ \A l \in Sources[i] : lease[l].status \in {"released", "revoked", "expired"}

\* Two leases that the conflict check of acquire_lease keeps apart.
KeptApart(k, l) == Room(k) = Room(l) /\ <<Claim[k].area, Claim[l].area>> \in Overlap

\* No update is lost under a lease: a guarded write that lands while its lease
\* is in force replaces the version it was based on, although the thin client
\* was asked for the state first and for the write later.  What can come
\* between is a write of the same lease, one whose own lease had ended or that
\* had none when it landed, and one under a lease the conflict check does not
\* see (validate_write_context, file_state, write_file in routers/mcp.py).
GuardedWriteReplacesExpected ==
    \A w, v \in landed :
        /\ w.lease \in w.inForce
        /\ v.path = w.path /\ w.expected < v.version /\ v.version < w.version
        /\ v.lease \in v.inForce /\ v.lease # w.lease
        => ~KeptApart(v.lease, w.lease)

\* What validate_write_context refuses with "Write path is reserved by another
\* active lease": a write under one lease lands on a path that another active
\* lease of the same room has reserved.
NoWriteIntoAnothersLease ==
    \A w \in landed : w.lease # NoLease =>
        \A l \in w.inForce : Room(l) = Room(w.lease) => l = w.lease

\* What a client sees of the leases: the rows in force, those that are over, and
\* the tokens.  A step of any handler grants one lease that is clear of the
\* others, ends some, or changes nothing in it.
Ledger == INSTANCE LeaseLedger WITH
    RoomOf  <- [l \in Leases |-> Room(l)],
    Clashes <- {pr \in Leases \X Leases : Room(pr[1]) = Room(pr[2]) /\ Conflict(pr[1], pr[2])},
    inForce <- Active,
    ended   <- {l \in Leases : lease[l].status \in {"released", "revoked", "expired"}},
    token   <- [l \in Leases |-> lease[l].token]

\* The life of the leases, whichever handlers of whichever replicas overlap: a
\* new lease has a higher fencing token than every earlier one of its room, a
\* lease that has ended never comes back, and the rows implement the ledger of
\* LeaseLedger (acquire_lease, renew_lease, release_lease, expire_stale_leases).
LeaseHistory == TokensIncrease /\ EndedLeaseStaysEnded /\ Ledger!Spec

\* What a later reader concludes from a handoff or an integration record is
\* true: the lease handed over, and the leases whose work was integrated, have
\* ended for good, and an approved integration had a report without conflicts
\* (accept_handoff, create_integration, complete_integration).
CoordinationEvidence == HandoffAfterRelease /\ IntegrationSound
=============================================================================
