-------------------------- MODULE FederatedActions --------------------------
(***************************************************************************)
(* Write actions of federated MCP servers: prepare_action records what is  *)
(* asked for and opens an approval request; execute_action, given the      *)
(* permit of the approved request, claims it, calls the exact recorded     *)
(* tool revision through UpstreamMcpManager and records a receipt.  Calls  *)
(* may be repeated by the client, run on several replicas and be cut off   *)
(* by a crash at any await.  The approval itself is AutonomyPermits'; here *)
(* it is the events this path sees.                                        *)
(***************************************************************************)
EXTENDS Naturals

CONSTANTS
    Preps,          \* preparations, by idempotency key
    GaSessions,     \* requests being handled
    MaxAuth,        \* bound on the changes of exposure and policies
    MaxGaCrashes    \* bound on crashes

ASSUME FederatedActionsAssumption == MaxAuth \in Nat /\ MaxGaCrashes \in Nat

VARIABLES
    gaContext,      \* the system room, agents and policy exist
    gaAuth,         \* generation of exposure, federation and autonomy policy
    gaPrep,         \* McpActionPreparation rows
    gaLapsed,       \* preparations whose expires_at has passed
    gaApproval,     \* status of the approval request of a preparation
    gaPermit,       \* ExecutionPermit rows (unique per request)
    gaReceipt,      \* ActionReceipt rows (unique per permit)
    gaInv,          \* McpInvocation rows (unique per idempotency key)
    gaWire,         \* the call on its way to and in the upstream server
    gaTx,           \* where each request stands
    gaCrashes

gaVars == <<gaContext, gaAuth, gaPrep, gaLapsed, gaApproval, gaPermit,
            gaReceipt, gaInv, gaWire, gaTx, gaCrashes>>

PrepRow == [status : {"absent", "pending_approval", "executing", "succeeded", "failed", "expired"},
            auth : 0..MaxAuth]
Outcomes == {"succeeded", "failed", "unknown"}
GaIdle == [op |-> "idle"]

FedTypeOK ==
    /\ gaContext \in BOOLEAN /\ gaAuth \in 0..MaxAuth /\ gaLapsed \subseteq Preps
    /\ gaPrep \in [Preps -> PrepRow]
    /\ gaApproval \in [Preps -> {"none", "pending", "approved", "closed"}]
    /\ gaPermit \in [Preps -> [status : {"none", "active", "claimed", "revoked", "consumed"},
                               claimed : BOOLEAN]]
    /\ gaReceipt \in [Preps -> {"none"} \cup Outcomes]
    /\ gaInv \in [Preps -> {"none", "running"} \cup Outcomes]
    /\ gaWire \in [Preps -> [sends : 0..1, result : {"no", "ok", "error"}]]
    /\ gaTx \in [GaSessions ->
          {GaIdle} \cup [op : {"prepare"}, p : Preps, auth : 0..MaxAuth, context : BOOLEAN]
          \cup [op : {"claim", "start", "insert", "call", "wait"}, p : Preps]
          \cup [op : {"record", "receipt", "finish"}, p : Preps, out : Outcomes]]

GaInit ==
    /\ gaContext = FALSE /\ gaAuth = 0 /\ gaLapsed = {} /\ gaCrashes = 0
    /\ gaPrep = [p \in Preps |-> [status |-> "absent", auth |-> 0]]
    /\ gaApproval = [p \in Preps |-> "none"]
    /\ gaPermit = [p \in Preps |-> [status |-> "none", claimed |-> FALSE]]
    /\ gaReceipt = [p \in Preps |-> "none"]
    /\ gaInv = [p \in Preps |-> "none"]
    /\ gaWire = [p \in Preps |-> [sends |-> 0, result |-> "no"]]
    /\ gaTx = [s \in GaSessions |-> GaIdle]

GaGoto(s, t) == gaTx' = [gaTx EXCEPT ![s] = t]
GaAt(s, op) == gaTx[s].op = op

-----------------------------------------------------------------------------
(* prepare_action *)

\* _resolve_authorized at the current generation; no preparation of the key.
PrepareRead(s, p) ==
    /\ gaTx[s] = GaIdle /\ gaPrep[p].status = "absent"
    /\ GaGoto(s, [op |-> "prepare", p |-> p, auth |-> gaAuth, context |-> gaContext])
    /\ UNCHANGED <<gaContext, gaAuth, gaPrep, gaLapsed, gaApproval, gaPermit,
                   gaReceipt, gaInv, gaWire, gaCrashes>>

\* _ensure_execution_context: its rows are unique per owner, and a second
\* request that creates them fails.
ContextClash(s) == ~gaTx[s].context /\ gaContext

PrepareCommit(s) ==
    /\ GaAt(s, "prepare")
    /\ GaGoto(s, GaIdle)
    /\ LET p == gaTx[s].p IN
       IF ContextClash(s) \/ gaPrep[p].status # "absent"
       THEN UNCHANGED <<gaContext, gaPrep, gaApproval>>
       ELSE /\ gaContext' = TRUE
            /\ gaPrep' = [gaPrep EXCEPT ![p] = [status |-> "pending_approval", auth |-> gaTx[s].auth]]
            /\ gaApproval' = [gaApproval EXCEPT ![p] = "pending"]
    /\ UNCHANGED <<gaAuth, gaLapsed, gaPermit, gaReceipt, gaInv, gaWire, gaCrashes>>

-----------------------------------------------------------------------------
(* What happens to a preparation meanwhile *)

GaEnvUnchanged == UNCHANGED <<gaContext, gaPrep, gaReceipt, gaInv, gaWire, gaTx, gaCrashes>>

Decide(p) ==
    /\ gaApproval[p] = "pending"
    /\ \E d \in {"approved", "closed"} : gaApproval' = [gaApproval EXCEPT ![p] = d]
    /\ UNCHANGED <<gaAuth, gaLapsed, gaPermit>> /\ GaEnvUnchanged

IssuePermit(p) ==
    /\ gaApproval[p] = "approved" /\ gaPermit[p].status = "none"
    /\ gaPermit' = [gaPermit EXCEPT ![p].status = "active"]
    /\ UNCHANGED <<gaAuth, gaLapsed, gaApproval>> /\ GaEnvUnchanged

\* A control or a policy update revokes open permits.
RevokePermit(p) ==
    /\ gaPermit[p].status \in {"active", "claimed"}
    /\ gaPermit' = [gaPermit EXCEPT ![p].status = "revoked"]
    /\ UNCHANGED <<gaAuth, gaLapsed, gaApproval>> /\ GaEnvUnchanged

\* The exposure's version or a policy's generation moves on.
ChangeAuth ==
    /\ gaAuth < MaxAuth
    /\ gaAuth' = gaAuth + 1
    /\ UNCHANGED <<gaLapsed, gaApproval, gaPermit>> /\ GaEnvUnchanged

Lapse(p) ==
    /\ gaPrep[p].status # "absent" /\ p \notin gaLapsed
    /\ gaLapsed' = gaLapsed \cup {p}
    /\ UNCHANGED <<gaAuth, gaApproval, gaPermit>> /\ GaEnvUnchanged

-----------------------------------------------------------------------------
(* execute_action *)

ExecUnchanged == UNCHANGED <<gaContext, gaAuth, gaLapsed, gaApproval, gaCrashes>>

\* With a receipt the call is answered from it.
Executable(p) == gaPrep[p].status # "absent" /\ gaReceipt[p] = "none"

\* _resolve_authorized again, and the generations and version recorded then.
AuthCurrent(p) == gaPrep[p].auth = gaAuth

ExecExpired(s, p) ==
    /\ gaTx[s] = GaIdle /\ Executable(p) /\ p \in gaLapsed
    /\ gaPrep' = [gaPrep EXCEPT ![p].status = "expired"]
    /\ UNCHANGED <<gaPermit, gaReceipt, gaInv, gaWire, gaTx>> /\ ExecUnchanged

ExecRead(s, p) ==
    /\ gaTx[s] = GaIdle /\ Executable(p) /\ p \notin gaLapsed
    /\ AuthCurrent(p)
    /\ gaApproval[p] = "approved" /\ gaPermit[p].status # "none"
    /\ GaGoto(s, [op |-> "claim", p |-> p])
    /\ UNCHANGED <<gaPrep, gaPermit, gaReceipt, gaInv, gaWire>> /\ ExecUnchanged

\* claim_permit: a permit this executor already claimed is returned again.
\* Mutant: a permit in any status will do.
ExecClaimAny(s) ==
    /\ GaAt(s, "claim")
    /\ GaGoto(s, [op |-> "start", p |-> gaTx[s].p])
    /\ UNCHANGED <<gaPrep, gaPermit, gaReceipt, gaInv, gaWire>> /\ ExecUnchanged

ExecClaim(s) ==
    /\ GaAt(s, "claim")
    /\ LET p == gaTx[s].p IN
       CASE gaPermit[p].status = "claimed" ->
              GaGoto(s, [op |-> "start", p |-> p]) /\ UNCHANGED gaPermit
         [] gaPermit[p].status = "active" ->
              /\ GaGoto(s, [op |-> "start", p |-> p])
              /\ gaPermit' = [gaPermit EXCEPT ![p] = [status |-> "claimed", claimed |-> TRUE]]
         [] OTHER -> GaGoto(s, GaIdle) /\ UNCHANGED gaPermit
    /\ UNCHANGED <<gaPrep, gaReceipt, gaInv, gaWire>> /\ ExecUnchanged

\* The claim or the stored arguments are refused for another reason.
ExecRefused(s) ==
    /\ GaAt(s, "claim") \/ GaAt(s, "start")
    /\ GaGoto(s, GaIdle)
    /\ UNCHANGED <<gaPrep, gaPermit, gaReceipt, gaInv, gaWire>> /\ ExecUnchanged

\* _replay_existing_invocation: an invocation in progress is an error like a
\* recorded failure; only a recorded unknown outcome stays unknown.
Replayed(inv) == IF inv = "running" THEN "failed" ELSE inv

\* status executing is committed; call_exact_revision looks for an earlier
\* invocation of the preparation, then for the writes pause and bad arguments.
ExecStart(s) ==
    /\ GaAt(s, "start")
    /\ LET p == gaTx[s].p IN
       /\ gaPrep' = [gaPrep EXCEPT ![p].status = "executing"]
       /\ IF gaInv[p] # "none"
          THEN GaGoto(s, [op |-> "receipt", p |-> p, out |-> Replayed(gaInv[p])])
          ELSE \/ GaGoto(s, [op |-> "insert", p |-> p])
               \/ GaGoto(s, [op |-> "receipt", p |-> p, out |-> "failed"])
    /\ UNCHANGED <<gaPermit, gaReceipt, gaInv, gaWire>> /\ ExecUnchanged

\* Mutant: a clash of the idempotency key is not looked at.
ExecInsertTwice(s) ==
    /\ GaAt(s, "insert")
    /\ gaInv' = [gaInv EXCEPT ![gaTx[s].p] = "running"]
    /\ GaGoto(s, [op |-> "call", p |-> gaTx[s].p])
    /\ UNCHANGED <<gaPrep, gaPermit, gaReceipt, gaWire>> /\ ExecUnchanged

\* The invocation row is committed before anything is sent.
ExecInsert(s) ==
    /\ GaAt(s, "insert")
    /\ LET p == gaTx[s].p IN
       IF gaInv[p] = "none"
       THEN gaInv' = [gaInv EXCEPT ![p] = "running"] /\ GaGoto(s, [op |-> "call", p |-> p])
       ELSE /\ GaGoto(s, [op |-> "receipt", p |-> p, out |-> Replayed(gaInv[p])])
            /\ UNCHANGED gaInv
    /\ UNCHANGED <<gaPrep, gaPermit, gaReceipt, gaWire>> /\ ExecUnchanged

\* Not admitted by _bounded, no session, no thin client, or another schema.
ExecNotSent(s) ==
    /\ GaAt(s, "call")
    /\ GaGoto(s, [op |-> "record", p |-> gaTx[s].p, out |-> "failed"])
    /\ UNCHANGED <<gaPrep, gaPermit, gaReceipt, gaInv, gaWire>> /\ ExecUnchanged

ExecSend(s) ==
    /\ GaAt(s, "call")
    /\ GaGoto(s, [op |-> "wait", p |-> gaTx[s].p])
    /\ gaWire' = [gaWire EXCEPT ![gaTx[s].p].sends = @ + 1]
    /\ UNCHANGED <<gaPrep, gaPermit, gaReceipt, gaInv>> /\ ExecUnchanged

\* The upstream server runs the tool, perhaps after the Gateway gave up.
UpstreamRuns(p) ==
    /\ gaWire[p].sends > 0 /\ gaWire[p].result = "no"
    /\ \E r \in {"ok", "error"} : gaWire' = [gaWire EXCEPT ![p].result = r]
    /\ UNCHANGED <<gaPrep, gaPermit, gaReceipt, gaInv, gaTx>> /\ ExecUnchanged

\* An answer that cannot be projected or breaks the output schema is a failure.
ExecAnswer(s) ==
    /\ GaAt(s, "wait")
    /\ LET p == gaTx[s].p IN
       /\ gaWire[p].result # "no"
       /\ \E out \in {"failed"} \cup {o \in {"succeeded"} : gaWire[p].result = "ok"} :
            GaGoto(s, [op |-> "record", p |-> p, out |-> out])
    /\ UNCHANGED <<gaPrep, gaPermit, gaReceipt, gaInv, gaWire>> /\ ExecUnchanged

\* The protocol deadline leaves the outcome unknown, and so does a thin client
\* lost after dispatch; a broken HTTP connection is recorded as a failure.
ExecNoAnswer(s) ==
    /\ GaAt(s, "wait")
    /\ \E out \in {"unknown", "failed"} :
         GaGoto(s, [op |-> "record", p |-> gaTx[s].p, out |-> out])
    /\ UNCHANGED <<gaPrep, gaPermit, gaReceipt, gaInv, gaWire>> /\ ExecUnchanged

ExecRecord(s) ==
    /\ GaAt(s, "record")
    /\ gaInv' = [gaInv EXCEPT ![gaTx[s].p] = gaTx[s].out]
    /\ GaGoto(s, [gaTx[s] EXCEPT !.op = "receipt"])
    /\ UNCHANGED <<gaPrep, gaPermit, gaReceipt, gaWire>> /\ ExecUnchanged

\* record_receipt: the first receipt of the preparation stays.
ExecReceipt(s) ==
    /\ GaAt(s, "receipt")
    /\ LET p == gaTx[s].p IN
       IF gaReceipt[p] = "none"
       THEN /\ gaReceipt' = [gaReceipt EXCEPT ![p] = gaTx[s].out]
            /\ gaPermit' = [gaPermit EXCEPT ![p].status = "consumed"]
       ELSE UNCHANGED <<gaReceipt, gaPermit>>
    /\ GaGoto(s, [gaTx[s] EXCEPT !.op = "finish"])
    /\ UNCHANGED <<gaPrep, gaInv, gaWire>> /\ ExecUnchanged

\* The preparation takes the outcome of this call, not that of the receipt.
ExecFinish(s) ==
    /\ GaAt(s, "finish")
    /\ gaPrep' = [gaPrep EXCEPT ![gaTx[s].p].status =
                    IF gaTx[s].out = "succeeded" THEN "succeeded" ELSE "failed"]
    /\ GaGoto(s, GaIdle)
    /\ UNCHANGED <<gaPermit, gaReceipt, gaInv, gaWire>> /\ ExecUnchanged

\* The replica dies, or the request is cancelled, at any await or commit.
GaCrash(s) ==
    /\ gaCrashes < MaxGaCrashes /\ gaTx[s] # GaIdle
    /\ gaCrashes' = gaCrashes + 1
    /\ GaGoto(s, GaIdle)
    /\ UNCHANGED <<gaContext, gaAuth, gaPrep, gaLapsed, gaApproval, gaPermit,
                   gaReceipt, gaInv, gaWire>>

GaNext ==
    \/ ChangeAuth
    \/ \E p \in Preps : Decide(p) \/ IssuePermit(p) \/ RevokePermit(p) \/ Lapse(p) \/ UpstreamRuns(p)
    \/ \E s \in GaSessions :
         \/ \E p \in Preps : PrepareRead(s, p) \/ ExecExpired(s, p) \/ ExecRead(s, p)
         \/ PrepareCommit(s) \/ ExecClaim(s) \/ ExecRefused(s) \/ ExecStart(s) \/ ExecInsert(s)
         \/ ExecNotSent(s) \/ ExecSend(s) \/ ExecAnswer(s) \/ ExecNoAnswer(s)
         \/ ExecRecord(s) \/ ExecReceipt(s) \/ ExecFinish(s) \/ GaCrash(s)

GaSpec == GaInit /\ [][GaNext]_gaVars

-----------------------------------------------------------------------------
\* The detailed protocol implements GuardedAction.
Promise == INSTANCE GuardedAction WITH
    Actions <- Preps,
    authorised <- {p \in Preps : gaPermit[p].claimed},
    sent <- [p \in Preps |-> gaWire[p].sends],
    performed <- [p \in Preps |-> gaWire[p].result],
    verdict <- gaReceipt

ImplementsGuardedAction == Promise!Spec
=============================================================================
