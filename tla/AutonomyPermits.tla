--------------------------- MODULE AutonomyPermits ---------------------------
(***************************************************************************)
(* The guarded-action path of AgentAutonomyService: approval request ->    *)
(* votes -> execution permit -> claim -> action receipt, under autonomy    *)
(* controls (pause / kill / resume per scope) and policy generations.      *)
(*                                                                         *)
(* Several gateway replicas share one PostgreSQL database.  A handler is a *)
(* READ COMMITTED transaction: it SELECTs, decides on what it read, then   *)
(* flushes its writes and commits.  Every handler is therefore split where *)
(* another replica can get in between: a ...Read action that evaluates the *)
(* guards and remembers in tx what was read, and a ...Commit action that   *)
(* applies the writes.  An ORM write is unconditional (UPDATE ... WHERE    *)
(* id = ...) and touches only the columns the handler assigned; the claim  *)
(* and the policy update carry a WHERE clause that is re-evaluated when    *)
(* they are applied; inserts meet the unique constraints of the schema.    *)
(*                                                                         *)
(* Time is abstracted to the deadlines that have passed: lapsedRequests,   *)
(* lapsedPermits and lapsedControls.                                       *)
(***************************************************************************)
EXTENDS Naturals, FiniteSets

CONSTANTS
    Requests,       \* approval requests, one per idempotency key
    Commands,       \* privileged run_tool commands (requires_approval)
    Policies,       \* autonomy policies
    Scopes,         \* control scopes: global, tenant, room, policy
    Voters,         \* users that pass _can_vote
    Admins,         \* voters holding the gateway-admin role
    Proposer,       \* the subject that created the requests
    Sessions,       \* database sessions of all replicas
    CommandOf,      \* request -> the command it approves
    PolicyOf,       \* request -> the policy it is created under
    Covers,         \* scope -> the requests the scope governs
    Rule,           \* request -> its approval rule, fixed at creation
    MaxControlGeneration, MaxPolicyGeneration   \* bounds on the generations

ASSUME ConstantsAssumption ==
    /\ IsFiniteSet(Voters)
    /\ Admins \subseteq Voters
    /\ CommandOf \in [Requests -> Commands]
    /\ PolicyOf \in [Requests -> Policies]
    /\ Covers \in [Scopes -> SUBSET Requests]
    /\ Rule \in [Requests -> [quorum: Nat, require_admin: BOOLEAN,
                              disallow_proposer: BOOLEAN]]
    /\ MaxControlGeneration \in Nat /\ MaxPolicyGeneration \in Nat

VARIABLES
    request,        \* ApprovalRequest rows
    votes,          \* ApprovalVote rows
    permit,         \* ExecutionPermit rows (unique per request)
    receipt,        \* ActionReceipt rows (unique per permit)
    command,        \* AgentCommand rows
    policy,         \* AutonomyPolicy rows
    control,        \* AutonomyControlState rows; generation 0 = no row
    lapsedRequests, lapsedPermits, lapsedControls,
    tx              \* what each open transaction has read so far

rows == <<request, votes, permit, receipt, command, policy, control>>
time == <<lapsedRequests, lapsedPermits, lapsedControls>>
vars == <<rows, time, tx>>

-----------------------------------------------------------------------------
(* Types *)

PolicyStatuses  == {"active", "paused", "disabled"}
ControlStates   == {"enabled", "paused", "killed"}
RequestStatuses == {"none", "pending", "approved", "rejected", "expired"}
PermitStatuses  == {"none", "active", "claimed", "consumed", "expired", "revoked"}
ReceiptStatuses == {"none", "succeeded", "failed"}
CommandStatuses == {"open", "accepted", "completed", "failed", "closed"}
Decisions       == {"approve", "reject"}

\* COMMAND_TERMINAL_STATUSES.  "open" stands for pending, delivered and
\* acknowledged, "closed" for rejected, cancelled and expired; a receipt is
\* "failed" when its status is failed, partial or unknown.
CommandTerminal == {"completed", "failed", "closed"}

Vote      == [voter: Voters, decision: Decisions]
PermitRow == [status: PermitStatuses, generation: Nat,
              controls: [Scopes -> Nat], claimed: BOOLEAN, uses: Nat]
NoPermit  == [status |-> "none", generation |-> 0,
              controls |-> [s \in Scopes |-> 0], claimed |-> FALSE, uses |-> 0]

Idle == [op |-> "idle"]
Tx   == {Idle}
   \cup [op: {"create", "issue"}, req: Requests, generation: Nat]
   \cup [op: {"claim"}, req: Requests, left: SUBSET Scopes]
   \cup [op: {"issueChecked"}, req: Requests, generation: Nat, controls: [Scopes -> Nat]]
   \cup [op: {"vote"}, req: Requests, vote: Vote]
   \cup [op: {"tally"}, req: Requests, vote: Vote, seen: SUBSET Vote]
   \cup [op: {"receipt"}, req: Requests, status: ReceiptStatuses \ {"none"}]
   \cup [op: {"control"}, scope: Scopes, was: ControlStates, state: ControlStates,
         generation: Nat, seen: SUBSET Requests]
   \cup [op: {"policy"}, policy: Policies, status: PolicyStatuses, generation: Nat,
         seen: SUBSET Requests]
   \cup [op: {"revoke", "expirePermits", "expireRequests"}, seen: SUBSET Requests]
   \cup [op: {"command"}, cmd: Commands, status: CommandStatuses]

TypeOK ==
    /\ request \in [Requests -> [status: RequestStatuses, generation: Nat]]
    /\ votes   \in [Requests -> SUBSET Vote]
    /\ permit  \in [Requests -> PermitRow]
    /\ receipt \in [Requests -> ReceiptStatuses]
    /\ command \in [Commands -> [status: CommandStatuses, approved: BOOLEAN]]
    /\ policy  \in [Policies -> [status: PolicyStatuses, generation: Nat]]
    /\ control \in [Scopes -> [state: ControlStates, generation: Nat]]
    /\ lapsedRequests \in SUBSET Requests
    /\ lapsedPermits  \in SUBSET Requests
    /\ lapsedControls \in SUBSET Scopes
    /\ tx \in [Sessions -> Tx]

Init ==
    /\ request = [r \in Requests |-> [status |-> "none", generation |-> 0]]
    /\ votes   = [r \in Requests |-> {}]
    /\ permit  = [r \in Requests |-> NoPermit]
    /\ receipt = [r \in Requests |-> "none"]
    /\ command = [c \in Commands |-> [status |-> "open", approved |-> FALSE]]
    /\ policy  = [p \in Policies |-> [status |-> "active", generation |-> 1]]
    /\ control = [s \in Scopes |-> [state |-> "enabled", generation |-> 0]]
    /\ lapsedRequests = {} /\ lapsedPermits = {} /\ lapsedControls = {}
    /\ tx = [x \in Sessions |-> Idle]

-----------------------------------------------------------------------------
(* Helpers *)

ScopesOf(r) == {s \in Scopes : r \in Covers[s]}

\* control_snapshot + assert_enabled: a lapsed control counts as enabled.
Enabled(r) ==
    \A s \in ScopesOf(r) : control[s].state = "enabled" \/ s \in lapsedControls

\* Mutant: scopes without a row are left out instead of counting as 0.
GenerationsOfRows(r) ==
    [s \in {z \in ScopesOf(r) : control[z].generation > 0} |-> control[s].generation]

Generations(r) ==
    [s \in Scopes |-> IF s \in ScopesOf(r) THEN control[s].generation ELSE 0]

PolicyCurrent(r) ==
    /\ policy[PolicyOf[r]].status = "active"
    /\ policy[PolicyOf[r]].generation = request[r].generation

Approvers(vs) == {v \in Voters : [voter |-> v, decision |-> "approve"] \in vs}

QuorumMet(r, vs) ==
    /\ Cardinality(Approvers(vs)) >= Rule[r].quorum
    /\ Rule[r].require_admin => Approvers(vs) \cap Admins # {}

\* What _revoke_permits selects, and what it writes when it is flushed.
Revocable == {r \in Requests : permit[r].status \in {"active", "claimed"}}

Overwrite(rs, st) ==
    [r \in Requests |-> IF r \in rs THEN [permit[r] EXCEPT !.status = st] ELSE permit[r]]

Begin(x, t) == tx[x] = Idle /\ tx' = [tx EXCEPT ![x] = t]
End(x)      == tx' = [tx EXCEPT ![x] = Idle]

\* A transaction that fails (409 after a lost WHERE clause, IntegrityError, a
\* dropped connection, a replica that dies) leaves nothing behind.
Rollback(x) == tx[x] # Idle /\ End(x) /\ UNCHANGED <<rows, time>>

-----------------------------------------------------------------------------
(* create_approval_request *)

CreateRead(x, r) ==
    /\ request[r].status = "none"
    /\ policy[PolicyOf[r]].status = "active"
    /\ Enabled(r)
    /\ command[CommandOf[r]].status \notin CommandTerminal
    /\ Begin(x, [op |-> "create", req |-> r, generation |-> policy[PolicyOf[r]].generation])
    /\ UNCHANGED <<rows, time>>

CreateCommit(x, r) ==
    LET approved == Rule[r].quorum = 0 /\ ~Rule[r].require_admin IN
    /\ tx[x].op = "create" /\ tx[x].req = r
    /\ request[r].status = "none"           \* uq_approval_request_owner_idempotency
    /\ request' = [request EXCEPT ![r] =
           [status |-> IF approved THEN "approved" ELSE "pending",
            generation |-> tx[x].generation]]
    /\ command' = IF approved THEN [command EXCEPT ![CommandOf[r]].approved = TRUE]
                              ELSE command
    /\ End(x)
    /\ UNCHANGED <<votes, permit, receipt, policy, control, time>>

(* cast_vote: load the request; insert the vote and count; write the verdict *)

VoteRead(x, r, v, d) ==
    /\ request[r].status = "pending" /\ r \notin lapsedRequests
    /\ ~(Rule[r].disallow_proposer /\ v = Proposer)
    /\ \A vote \in votes[r] : vote.voter # v
    /\ Begin(x, [op |-> "vote", req |-> r, vote |-> [voter |-> v, decision |-> d]])
    /\ UNCHANGED <<rows, time>>

VoteTally(x) ==
    /\ tx[x].op = "vote"
    /\ tx' = [tx EXCEPT ![x] =
           [op |-> "tally", req |-> tx[x].req, vote |-> tx[x].vote,
            seen |-> votes[tx[x].req] \cup {tx[x].vote}]]
    /\ UNCHANGED <<rows, time>>

VoteCommit(x, r) ==
    LET rejected == \E vote \in tx[x].seen : vote.decision = "reject"
        approved == ~rejected /\ QuorumMet(r, tx[x].seen)
    IN
    /\ tx[x].op = "tally" /\ tx[x].req = r
    /\ \A vote \in votes[r] : vote.voter # tx[x].vote.voter  \* uq_approval_vote_subject
    /\ votes' = [votes EXCEPT ![r] = @ \cup {tx[x].vote}]
    /\ request' = [request EXCEPT ![r].status =
           IF rejected THEN "rejected" ELSE IF approved THEN "approved" ELSE @]
    /\ command' = IF approved THEN [command EXCEPT ![CommandOf[r]].approved = TRUE]
                              ELSE command
    /\ End(x)
    /\ UNCHANGED <<permit, receipt, policy, control, time>>

(* list_approval_requests persists the expiry of the pending requests it read *)

ExpireRequestsRead(x) ==
    LET due == {r \in lapsedRequests : request[r].status = "pending"} IN
    /\ due # {}
    /\ Begin(x, [op |-> "expireRequests", seen |-> due])
    /\ UNCHANGED <<rows, time>>

ExpireRequestsCommit(x) ==
    /\ tx[x].op = "expireRequests"
    /\ request' = [r \in Requests |->
           IF r \in tx[x].seen THEN [request[r] EXCEPT !.status = "expired"] ELSE request[r]]
    /\ End(x)
    /\ UNCHANGED <<votes, permit, receipt, command, policy, control, time>>

-----------------------------------------------------------------------------
(* issue_permit: load and verify the approval; read the controls; insert *)

\* Mutant: the approval status is not looked at.
IssueReadAnyStatus(x, r) ==
    /\ request[r].status # "none"
    /\ PolicyCurrent(r)
    /\ Begin(x, [op |-> "issue", req |-> r, generation |-> policy[PolicyOf[r]].generation])
    /\ UNCHANGED <<rows, time>>

IssueRead(x, r) ==
    /\ request[r].status = "approved"
    /\ PolicyCurrent(r)
    /\ Begin(x, [op |-> "issue", req |-> r, generation |-> policy[PolicyOf[r]].generation])
    /\ UNCHANGED <<rows, time>>

IssueCheck(x, r) ==
    /\ tx[x].op = "issue" /\ tx[x].req = r
    /\ Enabled(r)
    /\ permit[r].status = "none"
    /\ r \notin lapsedRequests
    /\ tx' = [tx EXCEPT ![x] = [op |-> "issueChecked", req |-> r,
                  generation |-> tx[x].generation, controls |-> Generations(r)]]
    /\ UNCHANGED <<rows, time>>

IssueCommit(x, r) ==
    /\ tx[x].op = "issueChecked" /\ tx[x].req = r
    /\ permit[r].status = "none"            \* uq_execution_permit_request
    /\ permit' = [permit EXCEPT ![r] =
           [status |-> "active", generation |-> tx[x].generation,
            controls |-> tx[x].controls, claimed |-> FALSE, uses |-> 0]]
    /\ lapsedPermits' = lapsedPermits \cup ({r} \cap lapsedRequests)
    /\ End(x)
    /\ UNCHANGED <<request, votes, receipt, command, policy, control,
                   lapsedRequests, lapsedControls>>

(* claim_permit: load the permit, the approval, the command and the policy; *)
(* read the control of each scope; UPDATE ... WHERE status = 'active'       *)

ClaimRead(x, r) ==
    /\ permit[r].status = "active" /\ r \notin lapsedPermits
    /\ PolicyCurrent(r)
    /\ permit[r].generation = policy[PolicyOf[r]].generation
    /\ command[CommandOf[r]].status = "accepted"
    /\ Begin(x, [op |-> "claim", req |-> r, left |-> ScopesOf(r)])
    /\ UNCHANGED <<rows, time>>

\* Mutant: only the state of the control is checked, not its generation.
ClaimCheckStatesOnly(x, r, s) ==
    /\ tx[x].op = "claim" /\ tx[x].req = r /\ s \in tx[x].left
    /\ control[s].state = "enabled" \/ s \in lapsedControls
    /\ tx' = [tx EXCEPT ![x].left = @ \ {s}]
    /\ UNCHANGED <<rows, time>>

ClaimCheck(x, r, s) ==
    /\ tx[x].op = "claim" /\ tx[x].req = r /\ s \in tx[x].left
    /\ control[s].state = "enabled" \/ s \in lapsedControls
    /\ control[s].generation = permit[r].controls[s]
    /\ tx' = [tx EXCEPT ![x].left = @ \ {s}]
    /\ UNCHANGED <<rows, time>>

\* Mutant: the UPDATE has no WHERE status = 'active'.
ClaimCommitUnguarded(x, r) ==
    /\ tx[x].op = "claim" /\ tx[x].req = r /\ tx[x].left = {}
    /\ permit' = [permit EXCEPT ![r].status = "claimed", ![r].claimed = TRUE,
                                ![r].uses = @ + 1]
    /\ End(x)
    /\ UNCHANGED <<request, votes, receipt, command, policy, control, time>>

ClaimCommit(x, r) ==
    /\ tx[x].op = "claim" /\ tx[x].req = r /\ tx[x].left = {}
    /\ permit[r].status = "active"
    /\ permit' = [permit EXCEPT ![r].status = "claimed", ![r].claimed = TRUE,
                                ![r].uses = @ + 1]
    /\ End(x)
    /\ UNCHANGED <<request, votes, receipt, command, policy, control, time>>

(* record_receipt: accepts a permit revoked after it was claimed *)

ReceiptRead(x, r, st) ==
    /\ permit[r].status \in {"claimed", "revoked"} /\ permit[r].claimed
    /\ Begin(x, [op |-> "receipt", req |-> r, status |-> st])
    /\ UNCHANGED <<rows, time>>

\* Mutant: no unique constraint on the permit of a receipt.
ReceiptCommitUpsert(x, r) ==
    /\ tx[x].op = "receipt" /\ tx[x].req = r
    /\ receipt' = [receipt EXCEPT ![r] = tx[x].status]
    /\ permit' = [permit EXCEPT ![r].status = "consumed"]
    /\ End(x)
    /\ UNCHANGED <<request, votes, command, policy, control, time>>

ReceiptCommit(x, r) ==
    /\ tx[x].op = "receipt" /\ tx[x].req = r
    /\ receipt[r] = "none"                  \* uq_action_receipt_permit
    /\ receipt' = [receipt EXCEPT ![r] = tx[x].status]
    /\ permit' = [permit EXCEPT ![r].status = "consumed"]
    /\ End(x)
    /\ UNCHANGED <<request, votes, command, policy, control, time>>

(* list_permits persists the expiry of the permits it read *)

ExpirePermitsRead(x) ==
    LET due == Revocable \cap lapsedPermits IN
    /\ due # {}
    /\ Begin(x, [op |-> "expirePermits", seen |-> due])
    /\ UNCHANGED <<rows, time>>

ExpirePermitsCommit(x) ==
    /\ tx[x].op = "expirePermits"
    /\ permit' = Overwrite(tx[x].seen, "expired")
    /\ End(x)
    /\ UNCHANGED <<request, votes, receipt, command, policy, control, time>>

-----------------------------------------------------------------------------
(* set_control: the generation is read, incremented in Python and written *)

ControlRead(x, s, st) ==
    /\ control[s].generation < MaxControlGeneration
    /\ Begin(x, [op |-> "control", scope |-> s, was |-> control[s].state, state |-> st,
                 generation |-> control[s].generation,
                 seen |-> IF st = "enabled" THEN {} ELSE Revocable \cap Covers[s]])
    /\ UNCHANGED <<rows, time>>

ControlCommit(x, s) ==
    /\ tx[x].op = "control" /\ tx[x].scope = s
    /\ tx[x].generation = 0 => control[s].generation = 0   \* unique scope row
    /\ control' = [control EXCEPT ![s] =
           [state |-> IF tx[x].state = tx[x].was /\ tx[x].generation > 0
                        THEN @.state ELSE tx[x].state,  \* unchanged: not in the UPDATE
            generation |-> tx[x].generation + 1]]
    /\ permit' = Overwrite(tx[x].seen, "revoked")
    /\ lapsedControls' = lapsedControls \ {s}
    /\ End(x)
    /\ UNCHANGED <<request, votes, receipt, command, policy, lapsedRequests, lapsedPermits>>

(* update_policy: guarded by the version, revokes the permits of the policy *)

PolicyRead(x, p, st) ==
    /\ policy[p].generation < MaxPolicyGeneration
    /\ Begin(x, [op |-> "policy", policy |-> p, status |-> st,
                 generation |-> policy[p].generation,
                 seen |-> {r \in Revocable : PolicyOf[r] = p}])
    /\ UNCHANGED <<rows, time>>

PolicyCommit(x, p) ==
    /\ tx[x].op = "policy" /\ tx[x].policy = p
    /\ policy[p].generation = tx[x].generation
    /\ policy' = [policy EXCEPT ![p] =
           [status |-> tx[x].status, generation |-> @.generation + 1]]
    /\ permit' = Overwrite(tx[x].seen, "revoked")
    /\ End(x)
    /\ UNCHANGED <<request, votes, receipt, command, control, time>>

(* apply_override(revoke_permits), filtered by tenant, room or policy *)

RevokeRead(x, s) ==
    /\ Revocable \cap Covers[s] # {}
    /\ Begin(x, [op |-> "revoke", seen |-> Revocable \cap Covers[s]])
    /\ UNCHANGED <<rows, time>>

RevokeCommit(x) ==
    /\ tx[x].op = "revoke"
    /\ permit' = Overwrite(tx[x].seen, "revoked")
    /\ End(x)
    /\ UNCHANGED <<request, votes, receipt, command, policy, control, time>>

-----------------------------------------------------------------------------
(* The command handlers of AgentCollaborationService that gate the path *)

Receipts(c) == {r \in Requests : CommandOf[r] = c /\ receipt[r] # "none"}

\* Mutant: any receipt supports any outcome.
CompletionStatusAnyReceipt(c, st) ==
    Receipts(c) # {} /\ st \in {"completed", "failed"}

\* one_or_none(): more than one receipt raises and the command stays as it is.
CompletionStatus(c, st) ==
    \E r \in Requests :
        /\ Receipts(c) = {r}
        /\ st = IF receipt[r] = "succeeded" THEN "completed" ELSE "failed"

CommandRead(x, c, st) ==
    /\ \/ st = "open" /\ command[c].status = "open"       \* delivered, acknowledged
       \/ st = "accepted" /\ command[c].status = "open" /\ command[c].approved
       \/ st = "closed" /\ command[c].status \notin CommandTerminal
       \/ command[c].status = "accepted" /\ CompletionStatus(c, st)
    /\ Begin(x, [op |-> "command", cmd |-> c, status |-> st])
    /\ UNCHANGED <<rows, time>>

CommandCommit(x, c) ==
    /\ tx[x].op = "command" /\ tx[x].cmd = c
    /\ command' = [command EXCEPT ![c].status = tx[x].status]
    /\ End(x)
    /\ UNCHANGED <<request, votes, permit, receipt, policy, control, time>>

-----------------------------------------------------------------------------
(* Deadlines pass; a permit never outlives its approval request *)

LapseRequest(r) ==
    /\ request[r].status # "none" /\ r \notin lapsedRequests
    /\ lapsedRequests' = lapsedRequests \cup {r}
    /\ lapsedPermits' = IF permit[r].status = "none" THEN lapsedPermits
                                                     ELSE lapsedPermits \cup {r}
    /\ UNCHANGED <<rows, lapsedControls, tx>>

LapsePermit(r) ==
    /\ permit[r].status # "none" /\ r \notin lapsedPermits
    /\ lapsedPermits' = lapsedPermits \cup {r}
    /\ UNCHANGED <<rows, lapsedRequests, lapsedControls, tx>>

LapseControl(s) ==
    /\ control[s].state # "enabled" /\ s \notin lapsedControls
    /\ lapsedControls' = lapsedControls \cup {s}
    /\ UNCHANGED <<rows, lapsedRequests, lapsedPermits, tx>>

-----------------------------------------------------------------------------
RequestStep(x) ==
    \E r \in Requests :
        \/ CreateRead(x, r) \/ CreateCommit(x, r)
        \/ \E v \in Voters, d \in Decisions : VoteRead(x, r, v, d)
        \/ VoteCommit(x, r)
        \/ IssueRead(x, r) \/ IssueCheck(x, r) \/ IssueCommit(x, r)
        \/ ClaimRead(x, r) \/ ClaimCommit(x, r) \/ \E s \in Scopes : ClaimCheck(x, r, s)
        \/ \E st \in ReceiptStatuses \ {"none"} : ReceiptRead(x, r, st)
        \/ ReceiptCommit(x, r)

OperatorStep(x) ==
    \/ \E s \in Scopes :
        \/ \E st \in ControlStates : ControlRead(x, s, st)
        \/ ControlCommit(x, s) \/ RevokeRead(x, s)
    \/ \E p \in Policies :
        (\E st \in PolicyStatuses : PolicyRead(x, p, st)) \/ PolicyCommit(x, p)
    \/ RevokeCommit(x)
    \/ ExpirePermitsRead(x) \/ ExpirePermitsCommit(x)
    \/ ExpireRequestsRead(x) \/ ExpireRequestsCommit(x)

CommandStep(x) ==
    \E c \in Commands :
        (\E st \in CommandStatuses : CommandRead(x, c, st)) \/ CommandCommit(x, c)

SessionStep(x) ==
    RequestStep(x) \/ VoteTally(x) \/ OperatorStep(x) \/ CommandStep(x) \/ Rollback(x)

TimeStep ==
    \/ \E r \in Requests : LapseRequest(r) \/ LapsePermit(r)
    \/ \E s \in Scopes : LapseControl(s)

Next == (\E x \in Sessions : SessionStep(x)) \/ TimeStep

Spec == Init /\ [][Next]_vars

-----------------------------------------------------------------------------
(* Properties *)

\* No permit without consent: whatever becomes of the request afterwards, a
\* permit row exists only if the committed votes reach the quorum of the rule
\* (with an administrator where the rule asks for one) and, where the rule
\* disallows it, none of the votes is the proposer's (cast_vote, issue_permit).
PermitBackedByQuorum ==
    \A r \in Requests : permit[r].status # "none" =>
        /\ QuorumMet(r, votes[r])
        /\ Rule[r].disallow_proposer => \A vote \in votes[r] : vote.voter # Proposer

\* Single use: claims, revocations, expiries and receipts of different replicas
\* may land in any order, but a permit is claimed at most once, and a receipt
\* exists only for a permit that was claimed (claim_permit, record_receipt).
SingleUse ==
    \A r \in Requests :
        /\ permit[r].uses <= 1
        /\ permit[r].claimed <=> permit[r].uses = 1
        /\ receipt[r] # "none" => permit[r].claimed

\* A permit that was revoked or expired before it was claimed stays unclaimed,
\* even if a claim had already passed all its checks (claim_permit, WHERE
\* status = 'active').
DeadPermitStaysDead ==
    [][\A r \in Requests :
         (permit[r].status \in {"revoked", "expired"} /\ ~permit[r].claimed)
             => ~permit'[r].claimed]_vars

\* A receipt is evidence: once recorded it is never replaced, not even when a
\* late revocation makes the consumed permit look revoked again
\* (record_receipt, uq_action_receipt_permit).
ReceiptImmutable ==
    [][\A r \in Requests : receipt[r] # "none" => receipt'[r] = receipt[r]]_vars

\* A privileged command is "completed" only on the strength of a recorded
\* receipt saying that its action succeeded (complete_command).
CompletionNeedsReceipt ==
    \A c \in Commands : command[c].status = "completed" =>
        \E r \in Requests : CommandOf[r] = c /\ receipt[r] = "succeeded"

\* A scope has moved past a permit once its generation is higher and no
\* set_control is open that read an older one than the permit's: set_control
\* calls overlap, and the later commit writes what it read, plus one.
MovedPast(s, r) ==
    /\ permit[r].controls[s] < control[s].generation
    /\ \A x \in Sessions :
         (tx[x].op = "control" /\ tx[x].scope = s) => permit[r].controls[s] <= tx[x].generation

\* The permit's snapshot is behind a control (the policy) that governs it, and
\* no claim got past the comparison before.
ControlFenced(r) ==
    /\ permit[r].status # "none" /\ ~permit[r].claimed
    /\ \E s \in ScopesOf(r) :
         /\ MovedPast(s, r)
         /\ \A x \in Sessions : (tx[x].op = "claim" /\ tx[x].req = r) => s \in tx[x].left

PolicyFenced(r) ==
    /\ permit[r].status # "none" /\ ~permit[r].claimed
    /\ permit[r].generation # policy[PolicyOf[r]].generation
    /\ ~\E x \in Sessions : tx[x].op = "claim" /\ tx[x].req = r

\* The control fence is final: once a governing scope has moved past a permit
\* that no claim has compared with it yet, the permit is never claimed, not
\* after a resume, not when the pause or the kill lapses, not if the permit was
\* inserted after the kill looked for permits to revoke, and not if set_control
\* calls overlap and lose an increment (claim_permit comparing generations that
\* set_control increments in Python).
ControlFenceFinal ==
    [][\A r \in Requests : ControlFenced(r) => ControlFenced(r)']_vars

\* The policy fence is final in the same way, however update_policy calls
\* overlap: their UPDATE is guarded by the version.
PolicyFenceFinal ==
    [][\A r \in Requests : PolicyFenced(r) => PolicyFenced(r)']_vars

\* What the quorum test asserts of a request whose votes are in: it is decided.
\* No vote is in flight, the votes reach the quorum, none rejects.
QuorumDecides ==
    \A r \in Requests :
        (/\ QuorumMet(r, votes[r])
         /\ request[r].status # "none"
         /\ \A vote \in votes[r] : vote.decision = "approve"
         /\ \A x \in Sessions : tx[x].op \in {"vote", "tally"} => tx[x].req # r)
        => request[r].status # "pending"

\* A permit that a control or a newer policy has overtaken is never claimed,
\* whichever of the two came between its issue and the claim.
FencesFinal == ControlFenceFinal /\ PolicyFenceFinal

\* Evidence is final: a dead permit is never claimed again and a receipt never
\* replaced, whichever replica is late (claim_permit, record_receipt).
PermitHistory == DeadPermitStaysDead /\ ReceiptImmutable
=============================================================================
