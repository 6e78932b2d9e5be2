# ChatGPT Gateway MCP Nyan: a TLA+ verification project

TLA+ models of the gateway's stateful services, the TLC runs that check them on small
instances and the TLAPS proofs that carry the main results to every instance. Paths
below are relative to `src/services/gateway-api/gateway_api/` unless they start with
another directory.

## The system

The gateway is a FastAPI service that lets several AI agents and their operators share
rooms, commands, file leases, thin clients on other machines and federated MCP servers.
Several replicas of it run against one PostgreSQL database at READ COMMITTED; sessions
have `autoflush=False` and `expire_on_commit=False`. Three facts about this set-up decide
almost every model here:

- A handler selects rows, decides in Python and commits. Unless it says
  `with_for_update()`, another replica's commit may fall between its read and its
  write, and the ORM then writes `UPDATE ... WHERE id = ...` over it, touching only the
  columns whose value the handler changed.
- Handlers that `await` (thin clients, upstream servers, broker, cold store, identity
  providers) let every other request run between the statements around the await, even
  inside one replica. Handlers that do not await are one step in one process, but not
  across replicas.
- Whoever is at the other end (a client, a server, a process, an editor) may answer late,
  twice or not at all, and the gateway may stop between any two commits.

How the parts interact: every handler calls `emit_event(commit=False)`, so an outbox row
is part of the transaction it announces; the broker delivers it to all replicas' realtime
services, and terminal rows later move to the cold history. Guarded tools need a permit
(AutonomyPermits), which the federated broker claims before it calls an upstream server
(FederatedActions, through the sessions of UpstreamServers, the trust of
FederationRegistry and the secrets of UpstreamCredentials). File writes may carry a lease
(AgentCoordination) and are recorded by the tool call that made them (ToolCalls). Commands
end with a receipt. Recovery loops issue commands. The lease module takes the overlap
relation of reservations as a constant, which Reservations examines.

The behaviours that are hard: reads that are stale when they are written back; counts
and generations computed in Python from unlocked reads; two replicas passing the same
check; awaits between check and use; claims that lapse under a slow but live worker;
connections that overlap and end out of order; answers that are lost after the effect
took place; crashes between two commits. `PROJECT.json` lists them under "hazards" with
their lines and the properties that would notice.

## Modules

A module's variables are the rows, files or in-memory tables of its component, and what
each open session, task or connection has read (`tx`, `...Tx`, `...Call`). A handler is
one action for each stretch in which nobody else can act: usually a read with the guards
and early returns, and a commit with the assignments; a step per await where it awaits.
Guarded UPDATEs repeat their WHERE clause at the commit, unique indexes are guards of
inserts, row locks are held in a variable. Time is a clock in ticks where ages are
compared, and otherwise a set of deadlines that have passed. Variables that exist only to
state a property (`landed`, `regReviewed`, `ucRedeemed`, `rnKept`, `pfTold`, ...) are
marked as history in the module. `map` in `PROJECT.json` gives the source lines of every
definition. Operators with "Mutant" in their comment are broken variants of the
definition that follows them, used to show that a property can fail.

Agents:

| Module | Code | State and steps | What is claimed |
|---|---|---|---|
| AutonomyPermits | `agent_autonomy.py` | requests, votes, permits, receipts, policies, controls; vote, tally, issue, claim, receipt, control, policy update, revocation, expiry, command completion, each read / check / commit | a permit is used once, with a quorum's consent, never behind a kill or a newer policy; receipts are final |
| AutonomyRecovery | `agent_autonomy.py`, `agent_collaboration.py`, `runtime.py` | loops, the commands issued for their attempts, workers, who is away from the room; cycle with `issue_command`'s own commit, a cycle refused by it, outcomes, pause, cancel, death of a worker | one command per attempt, none skipped, the row names the latest; a planned loop is taken up unless the coordinator or the target of a planned loop keeps away |
| AgentWorkItems | `agent_autonomy.py`, `agent_collaboration.py` | items with version, assignee and dependencies, assignments, agents; create, claim, update, reopen, assignment cycle, apply, overrides | open iff unassigned, started after dependencies, no item taken from its agent |
| AgentCoordination | `agent_coordination.py`, write tool in `routers/mcp.py` | leases, tokens, file versions, handoffs, integrations; acquire under the room lock, renew, release, stale expiry, guarded write per await | active leases never conflict, tokens grow, ended leases stay ended, evidence is true; a write that lands under its lease replaces the version it was based on, as far as other leaseholders go; implements LeaseLedger |
| LeaseLedger | - | abstract: leases in force and ended, tokens; grant, end | a lease is granted once, beside none it clashes with, under a token above all of its room, and ends for good |
| Reservations | `agent_coordination.py` | pure: patterns as segment sequences; `fnmatch` and `startswith` by what they do | two leases share a path only where the test has its gap (a recursive path and a glob without fixed prefix, or the root and a glob); the test is symmetric |
| AgentRooms | `agent_collaboration.py` | membership, numbered messages, deliveries; the room lock and its loss in `_expire_stale_agents` | message numbers have no gap and no repetition |
| AgentCommands | `agent_collaboration.py` | commands of a room; issue, approval, and delivery, acknowledgement, acceptance and end as read and commit | a finished command was accepted by its agent with its approval |

Federation:

| Module | Code | State and steps | What is claimed |
|---|---|---|---|
| GuardedAction | - | abstract: authorised, sent, performed, verdict | nothing is sent before a claim, at most once, and "succeeded" is true |
| FederatedActions | `mcp_federation_broker.py`, `mcp_upstream.py` | preparations, approval as this path sees it, permits, upstream calls, receipts; repetition and crash at each await | implements GuardedAction |
| UpstreamServers | `mcp_upstream.py` | calls in flight, circuit, probe flag, slots, runtime rows, server status | cancellation anywhere leaves no probe flag without its probe and no online row without its session |
| FederationRegistry | `mcp_federation.py`, `mcp_federation_policy.py`, `mcp_federation_broker.py`, `mcp_resource_federation.py`, `mcp_prompt_federation.py`, `mcp_upstream.py` | capabilities, revisions, exposures by the time they were updated, policies (read, then commit, without a lock), mutation receipts; refresh in three commits; the upstream's listing and the call after it | usable means reviewed as it is, and under the trust in force unless its policy generation was taken twice; a call listed a reviewed descriptor first; a key runs once |
| RootGrants | `mcp_root_federation.py`, `thin_client_mcp.py`, `mcp_upstream.py` | candidates, grants, policies, what a connection holds; a review is an unlocked read and a commit, as is a reconciliation | roots held were approved for the server; for that instance and policy generation, unless another request that writes the grant overlapped |
| LocalCatalogue | `thin_client_mcp.py`, `mcp_federation.py` | the client's generations, messages in flight, the mirror, descriptors as they are stored (sanitized); handlers of a replaced connection go on | an acknowledged generation is mirrored, unless a handler of another connection committed since its snapshot or one of its own got no further than the tools |
| UpstreamCredentials | `mcp_upstream_credentials.py`, `mcp_upstream.py` | bindings, secrets, OAuth flows with and without an issuer; exchange, refresh, rotation and revocation around each await and each unlocked read | a token of a declared issuer is sent only under that issuer; no request replaces an issuer it has seen; a revocation survives the requests that found the binding active |
| CatalogueGenerations | `mcp_presentation.py`, `mcp_catalog_retrieval.py` | candidate and active projections, publish and rollback as unlocked read and commit, index generations, advisory locks | something is always served; two generations, or one verified in an earlier life, only if requests overlapped; one ready index of a catalogue |

Sessions and clients:

| Module | Code | State and steps | What is claimed |
|---|---|---|---|
| ChatContexts | `chat_context.py`, `config.py` | contexts, short codes with expiry and quarantine, conversation digests, the key version each replica uses | an active code is its context's newest; a conversation has one context unless bindings under different key versions overlapped |
| OAuthLineage | `routers/oauth.py`, `oauth_lineage.py`, `mcp_presentation.py` | clients, codes, tokens, policy generations and their inheritance | a lineage's policy has one holder; an accepted token carries the policy in force |
| RealtimeRoutes | `realtime.py`, `routers/realtime.py`, `broker.py` | hub, routes, notifications that expire, redelivered events, backlog with its limit | one notification per event, none missed but those the backlog query leaves out at its limit, none replayed after its acknowledgement |
| CommandSessions | `monitoring.py`, `routers/thin_clients.py` | row, spooled lines, process, tails, terminate, lost and revived sessions; appends, snapshots and drops of overlapping connections as read and commit, commits that fail after the file write | no gap in the numbers; a line appended alone keeps its number to itself; an ended command is revived only by a snapshot or drop that loaded it before its end; its end is told |
| ThinClients | `thin_client_control.py`, `routers/thin_clients.py`, `thin_client_mcp.py` | connections, pending requests, a send suspended with its frame out, runtime rows, invocation records, restarts | rows agree with sockets, no request waits on a connection that is gone, a write recorded as lost did not run unless it was cut in a suspended send; every request returns |
| ToolCalls | `routers/mcp.py` | call rows, change rows, files on server and client; timeouts, answers without hashes, crashes | change rows are true, successes are recorded, the server's own guard holds |
| DockerWorkspaces | `routers/docker.py`, `adapters/docker.py`, `routers/mcp.py` | rows and containers; failures and time limits of docker | no orphan unless interrupted; a row follows its container |
| TaskProgress | `task_progress.py`, `task_progress_app.py` | rows whose stamp is set before their commit, read by several queries, the view and its polls | the view ends on the current snapshot unless a row's own stamp went back; a final status is honest |
| Readiness | `main.py`, `readiness_cache.py`, `metrics_cache.py` | services started and stopped in order, any of which may fail; snapshots and their age, probes | a ready answer was verified recently; what runs has what it was started on; "stopped" is true |
| ResearchNotes | `obsidian_research_provider.py` | the note, the lock file, temporary files, requests and their repetition, updates that restore an earlier body, the editor | no lost update between providers, an append stays, a repeated append reaches the file again only after its text was taken away |
| PromptFacade | `prompt_registry_facade.py` | manifest and bundle caches, the registry's releases, bundles it does not know (404), answers under way | served recently enough; revoked bundles are gone; limits of the release are kept |

Records:

| Module | Code | State and steps | What is claimed |
|---|---|---|---|
| Outbox | `outbox.py`, `events.py`, `broker.py` | rows, claims, attempts, the broker's stream; claim (FOR UPDATE SKIP LOCKED), publish, record, release, cancel, replay | attempts without gap, published means stored, every event settles |
| ColdHistory | `scripts/*outbox_history*.py`, `routers/outbox.py`, `cold_history.py` | hot rows, batch files, the store's manifests, receipts and audit rows, readers | no event lost or unreadable, one audit per batch |
| UsageLifecycle | `usage_accounting.py`, `usage_tool_lifecycle.py`, `usage_final_lifecycle.py` | rows of a task, events accepted by the ledger, requests around their await | what is recorded was accepted, causes before effects |
| McpTraffic | `mcp_traffic.py`, `runtime.py` | pending estimates, two flushers and their locks, the ledger | delivered means stored, one flusher per row; every estimate leaves the queue |

The MC modules compose these for TLC. MCAgents, MCFederation, MCSessions, MCClients,
MCAccounting and MCSettles each hold several components and a variable `focus`: a
behaviour moves only the component that focus names. The components of one MC module keep
separate rows, so nothing one does enables or disables a step of another, and their state
spaces add up instead of multiplying. Each component was also run alone with the same
constants: every action of it takes place there. Where components do interact, the
interaction is inside one module: AutonomyPermits holds the command rows a receipt completes,
FederatedActions the approval, permit and upstream call, AutonomyRecovery the commands of
its loops, ThinClients both ends of the socket, ColdHistory the outbox rows and the store.

## Runs

| Run | Bounds | Checks | Distinct states |
|---|---|---|---|
| permits_use | 1 request that needs one approval, 1 voter, 2 sessions, control generation up to 3, policy generation up to 2 | SingleUse, CompletionNeedsReceipt, PermitHistory, FencesFinal | 4.25 M |
| leases_write | 2 successive writers of a path, 2 sessions, 2 file versions | GuardedWriteReplacesExpected | 10.9 M |
| agents | 2 conflicting leases, a handoff, an integration; 2 members and 2 messages; 2 commands, one with approval; 2 items in a chain, 2 workers, 1 assignment; 1 loop with 2 attempts, 2 workers, 1 crash; 2 sessions | AgentTypesOK, ExclusiveLeases, CoordinationEvidence, LeaseHistory, CollaborationSound, WorkItemsSound, RecoverySound | 969 k |
| federation | patterns of up to 3 segments over the names in the cfg; 1 preparation, 2 requests, 1 crash; 2 upstream calls, threshold 2; 1 capability with 2 descriptors, 3 keys, 2 refreshes; 2 servers, 1 root, 2 instances, 2 policies, 3 requests; 2 tools with 2 descriptors of which one is changed by sanitation, 3 generations, 2 connections; 1 binding, 1 flow, 2 issuers or none, 3 versions; 3 generations of 2 hashes, 2 builders | FederationTypesOK, ReservationsSound, ImplementsGuardedAction, UpstreamSound, RegistrySound, HeldRootsWereReviewed, AcknowledgedIsMirrored, CredentialsSound, GenerationsSound | 1.93 M |
| sessions | 1 request, 3 voters (proposer, admin, other); 2 lines of output, 2 handlers; 2 contexts, 2 owners, 2 codes, clock up to 2 (codes and bindings are separate foci), 2 key versions; 3 clients, 3 codes, 2 operator changes; 2 sockets, 2 messages, 2 handlers, a backlog of 1 | SessionTypesOK, PermitBackedByQuorum, CommandSessionsSound, ChatContextsSound, LineageSound, RealtimeSound | 2.92 M |
| clients | 2 connections, 1 request, 1 restart; 2 tool calls, 1 crash; 2 workspaces, 2 handlers; 2 items, 2 writes, stamps up to 2, 2 callers; 1 probe, clock up to 4; 2 requests on a note sent twice, 2 processes, 1 save, 1 crash; 1 channel, 2 bundles with limit 0 or 2, 2 calls | ClientTypesOK, ThinClientsSound, FilesSound, WorkspacesSound, ProgressSound, CachesSound | 2.98 M |
| accounting | 2 events in a batch, 2 publishers, 2 attempts, 1 operator request, 1 claim that lapses under a live publisher; 1 task with 1 tool callback and 2 requests; 2 estimates, 2 flushers, 2 attempts; 2 events, 2 batches, 2 runs, 1 replay, 1 reader | AccountingTypesOK, HistoryTrue, UsageSound, TrafficSound, ColdHistorySound | 1.15 M |
| settles | 1 event, 2 publishers, 1 crash, 1 lapse; 1 loop, 2 workers, 1 crash; 1 connection, 1 request, 1 restart; 2 estimates, 1 flusher; fairness, no symmetry | EventuallySettled, WorkersSettle | 378 k |
| permits_quorum_race | violation | QuorumDecides: two votes tallied at once leave a complete quorum pending | |
| leases_stale_write | violation | NoWriteIntoAnothersLease: a write checked before its lease ended lands in a successor's lease | |
| reservations_mixed | violation | NoSharedPath: a recursive path and a glob without a fixed prefix are both granted | |
| outbox_cancel_race | violation | PublishedNeverCancelled: a cancellation overwrites a success committed since its read | |

FilesSound is ToolCallsSound and NotesSound, CachesSound is ReadinessSound and
FacadeSound, CollaborationSound is SequenceGapless and FinishedWasAccepted; the other
names ending in Sound are conjunctions of the properties of one module. WorkersSettle is
PlannedLoopTakenUp, RequestSettles and TrafficSettles.

Why the bounds are enough: the races here are between a stale read and one or two
commits, which two sessions (publishers, workers, connections) already produce; a third
lease, voter, OAuth client or key is there where a rule relates three. Generations and
versions up to 2 or 3 allow a value to change after it was recorded and to change again,
so that an old value can come back. One crash, one lapse or one lost answer is enough to
separate any two steps, since it may come anywhere. Clocks run past every deadline at
least once. Where a bound could hide something, the proofs below cover every value; the one
liveness property a bound does touch is PlannedLoopTakenUp, whose part about a planned loop
that comes before another in the batch is not exercised by the single loop of settles.

Deadlock checking is on in leases_write and the violations of leases and outbox. In the
others the requests, keys or ticks of the instance run out and nothing is left to do, which
is a legitimate end. The symmetry sets permute sessions, publishers,
tokens and other names that no definition tells apart; the liveness run uses none.

Fairness (MCSettles, and `Fairness`, `RecFairness`, `TcFairness`, `TrFairness` of the
components): a publisher's `RunOnce`, the autonomy worker and the traffic flusher are
weakly fair because their loops run for ever, catch every exception and sleep a bounded
interval; it is assumed that the broker and the ledger come back. `LockLapse`,
`BackoffOver`, `BackoffEnds` and `DelayEnds` are the clock. A request to a thin client
has a timeout (`asyncio.wait_for`), whose firing and the return of a `send` are fair; the
client's answer is not. Deaths, lapses under a live publisher and restarts are finite. An
event that every publisher always outlives would never settle.

### Refinement

`GuardedAction` states what the broker promises: an action is sent only after a permit
was claimed for it, at most once, and its single receipt says "succeeded" only if the
upstream server performed it. FederatedActions instantiates it `WITH` authorised = the
permits claimed, sent and performed = the history of the upstream call, verdict = the
receipt's row; ImplementsGuardedAction is the abstract specification under that mapping.

`LeaseLedger` states what a holder of a lease may rely on without knowing rooms' locks,
sessions or expiry scans. AgentCoordination instantiates it `WITH` inForce = the active
leases, ended = those released, revoked or expired, token = their fencing tokens and
Clashes = pairs of one room whose reservations overlap; that it is implemented is a
conjunct of LeaseHistory, so the run agents checks it and LeasesRefineLedger proves it. A
grant of the ledger is the commit of an acquisition, many steps after the conflict check
it rests on; an expiry scan ends several leases at once, and for a lease that was released
since it was read only the reason changes.

### Assumptions of the instances

None of these removes an interleaving the code allows:

- `RdLag`, `PfTravel`: bounds on how late a snapshot is stamped and an answer arrives.
- `KeysInOrder` and `DrawnInOrder` draw interchangeable mutation keys, OAuth clients and
  codes in order; they remove only renamings. `AtRest` fixes the initial state of the
  components that focus leaves alone, names the owner of the first chat context, and lets
  tools and prompts begin under a reviewed policy (resources also begin without one).
- `oaReplicas`: LineageSound's second part is stated for one replica, see below.

## Proofs

Seven modules, checked by TLAPS with Z3, Zenon and LS4. Every invariant and action
property of the passing runs is a theorem, and so are the two refinements; the theorems
hold for every value of the constants that the named assumptions allow. Those say what the
code gives: limits are natural numbers, sets of rows that are counted are finite, and the
marks for "no row" or "nobody" are none of the rows or names (`ConstantsAssumption`,
`OutboxAssumption`, `RnAssumption`, `PfAssumption`, ...; TLC evaluates each in the run of
its module).

Four theorems have one of the assumptions of the instances above as a hypothesis. Each
time a second theorem says what stays true without it, from the same inductive invariant:

| Hypothesis | Needed for | Holds without it |
|---|---|---|
| `SerialControls` | ControlFenceCorrect (and FencesCorrect): a kill reaches permits issued before it | PolicyFenceCorrect, and everything else about permits |
| `SerialPolicies` | FederationRegistryCorrect: the trust in force | RegistryReviewedAlways: reviewed as it is, called as reviewed, a key runs once |
| `OneHandler` | CommandSessionsCorrect: lines numbered once | SessionEndAlways: an ended command stays ended, its end is told |
| `SendsAtOnce` | ThinClientsCorrect: a write recorded as lost did not run | ConnectionRowsAlways: rows, status and sockets agree, no request waits on a connection that is gone |

WriteCorrect has the hypothesis `OverlapComplete`, that the overlap relation the lease
module is given misses no shared path (TLC evaluates it for the instance). OverlapTestComplete
is what the code's own test gives: it misses none, except a recursive path against a glob
without fixed prefix and the root against a glob, where reservations_mixed shows the miss.

Each proof has the same shape: an inductive invariant (`...Inv`), a lemma that it holds
initially, a lemma per action or group of actions that a step preserves it, a lemma that
it implies the property, and a temporal step. Most of the work is in what the property
does not say: what a session, task or connection that is between two steps still knows.

- **AutonomyPermitsProofs**: TypeCorrect, SingleUseCorrect, DeadPermitCorrect,
  ReceiptImmutableCorrect, CompletionCorrect, ConsentCorrect, PolicyFenceCorrect,
  ControlFenceCorrect (for serial controls), and the combined PermitHistoryCorrect and
  FencesCorrect. `StepKinds` first reduces the next-state relation to which rows a step
  can write. `UseInv` adds to SingleUse that an active permit is unclaimed and that a
  receipt under way has a claimed permit; `SeenInv` that what an open revocation or expiry
  will overwrite are existing permits; `ConsentInv` that a request is approved, and an
  issue under way, only with a quorum of votes, which never shrink; `CompletionInv` that
  an open completion has seen its receipt. The fence invariants say that no snapshot,
  stored or still in a transaction, is ahead of the row it was taken from, and that an
  open set_control is alone and has read the current generation.
- **AgentCoordinationProofs**: TypeCorrect, ExclusiveCorrect, TokensCorrect, EndedCorrect,
  LeasesRefineLedger, LeaseHistoryCorrect, HandoffCorrect, IntegrationCorrect,
  EvidenceCorrect, WriteCorrect.
  `AcquireInv` is the heart: while a session holds a room, its pending lease conflicts
  with no active one and its token exceeds all tokens of the room. `TokensBounded` makes
  the maximum exist (a least upper bound by well-founded minimum, since tokens are any
  function). `SeenInv` says that a stale expiry overwrites only leases that were granted;
  without it an expiry could turn a lease that was never acquired into an ended one.
  `HandoffInv` and `IntegrationInv` carry that to the evidence rows. LeasesRefineLedger
  takes both invariants: `LedgerGrant` maps the commit of an acquisition to a grant by
  `AcquireInv`, `LedgerEnd` every other change of a lease to an end of leases in force by
  `SeenInv`, and all other steps stutter.
- **CollaborationProofs**: CollaborationCorrect, WorkItemsCorrect, RecoveryCorrect,
  AgentTypesCorrect, AgentsCorrect. `RoomInv`: a number that a request looked up is at most one above the
  count of the messages, so it is taken by now and refused by the unique index, or still
  the next one; this is why losing the room lock leaves no gap. `CmdInv`: a request about
  to write "accepted" found its approval, one about to finish found the acceptance, and
  neither is taken back. `WorkInv`: an item completed once is remembered, so that what a
  claim or an assignment under way found about its dependencies stays true. `RecInv`: an
  attempt that a worker has in its batch, or has issued, has its command, however old the
  batch is.
- **FederationProofs**: FederatedActionsRefineGuardedAction is the refinement. `GaIInv`
  says that a request past the claim holds a claimed permit, that the invocation row is a
  lock (one request calls, and only while the row is running), that nothing is sent before
  that row is there, and that whoever carries "succeeded" carries it of a tool that ran;
  with it `GaStepSimulates` maps each step to a step of GuardedAction or to a stutter.
  UpstreamSound is inductive with the types. `RegInv` (RegistryReviewedAlways,
  FederationRegistryCorrect): what is enabled, and what a session has found enabled, was
  reviewed; where policy updates do not overlap, also an open policy update has read the
  generation in force, no review names a later generation, and a review of the generation
  in force was made under the trust in force.
  `RgInv`: every approved grant, held or not, was reviewed for its instance and policy.
  `LcInv` (LocalCatalogueCorrect): messages under way are in the order of their
  generations, and the mirror is what was acknowledged or no delta under way starts from
  that generation. `UcInv`: secrets carry the issuer they came from, a flow's binding
  keeps the flow's issuer, and what a task computed before its await agrees with the rows
  it will write. `CgInv`: one build at a time, with no ready index of its catalogue.
  ReservationsCorrect rests on OverlapTestComplete and OverlapTestSymmetric, facts about
  patterns of any length. What they need of `FnMatch` is `ResMatchBegins`: a path that a
  pattern matches begins with the pattern's fixed prefix, because a literal segment takes
  exactly one segment of the path. That is an induction along the pattern, and the provers
  cannot use an induction principle; it is proved by a least counterexample instead: the
  positions at which the claim fails are a set of naturals, which has a least member if it
  has any (`ResLeast`, from the well-foundedness of `<`), and the step from the position
  before contradicts it. FederationTypesCorrect and FederationCorrect are about the
  composition.
- **SessionsProofs**: `CcInv` (ChatContextsCorrect): aliases of a context are its
  generations up to the current one, sessions hold no later one, and a binding in flight
  uses the key in use. `OaInv` (LineageCorrect): no holder before the first operator
  change and one after it; on one replica a token is never ahead of its client's
  generation. `RtInv` (RealtimeCorrect): a pending event was written to each routed
  socket, is in its backlog, or is owed by a handler that has yet to write it. `CsInv`
  (CommandSessionsCorrect) with `CsOneAppend`: the count of lines is the length of the
  file but for the one line whose count is not committed. SessionTypesCorrect and
  SessionsCorrect are about the composition.
- **OutboxProofs**: TypeCorrect, AttemptsCorrect, PublishedCorrect, HistoryCorrect,
  UsageCorrect, TrafficCorrect, ColdHistoryCorrect, AccountingTypesCorrect,
  AccountingCorrect.
  AttemptsComplete is inductive with `ReadInv`: the count a publisher has read has only
  grown since, so a number that the unique index admits is the next one.
  PublishedReachedBroker needs `AckInv`: the event of a publisher past its acknowledgement
  is in the stream. `UlInv`: the row and the cause that a request carries over its await
  are still accepted by the ledger. `TrInv`: rows a flusher holds stay pending until it
  commits, and what it counts as done was stored. `ChInv`: what a run of the script knows
  at each stage about its file, its object in the store and its audit; none of these is
  ever taken away (`ChKept`).
- **ClientsProofs**: ThinClientsCorrect, ToolCallsCorrect, WorkspacesCorrect,
  ProgressCorrect, ReadinessCorrect, FilesCorrect, CachesCorrect, ClientTypesCorrect,
  ConnectionRowsAlways, ClientsCorrect.
  `TcInv`: a connection is listed once, a request pending is on a listed one, and a write
  whose future says "lost" has a dead socket until its task ends. `TkInv`: every answer,
  change row and success rests on a write. `DkInv`: after docker the container is as the
  handler left it unless handlers overlapped. `TpInv`: what a caller has read is behind
  the room, and equal to it where nothing was committed since it began; `TpNumber` shows
  that a snapshot that is behind has no higher number. `RdInv` adds up the ages of a check
  while its snapshot is stamped, cached and carried over a probe. `RnInv`: a call that has
  entered holds the lock and has seen the file, or the editor saved since; a body is no
  longer than its texts and the saves allow; until the editor saves, the last text tells a
  body from all earlier ones, so that a repeated request expects a body that cannot come
  back. `PfInv`: entries of both caches are of releases nobody called revoked, a bundle's
  limit is at most that of the last manifest naming it, and one call holds the lock.

The specifications the runs check are the composed ones (AgentsSpec, FederationSpec,
SessionsSpec, AccountingSpec, ClientsSpec). A lemma of each proof module shows that a
behaviour of the composition is one of each component, since a step of one is a
stuttering step of the others; AgentsCorrect, FederationCorrect, SessionsCorrect,
AccountingCorrect and ClientsCorrect then carry every property of the run over to it.

Proving changed the models in a few places. Bounds that a type relied on are now named
assumptions (`MaxItemVersion`, `MaxKeys` and the generations of LocalCatalogue are not 0;
the rows of TaskProgress are finitely many and of distinct names). `PromptFacade.Serve`
did not cover a freshness interval of 0, for which an answer just validated has age 0. The
list comprehension that drops a connection in ThinClients is written by the position of
the connection, which is listed once (`TcListOK`), and UpstreamCredentials' type invariant
covers what a task holds.

Proving ReservationsSound changed its statement: it used to say only that two
reservations of one kind are disjoint, and now names exactly the mixed pairs the test
misses (`Gap`), for patterns of any length.

Only model-checked: the liveness properties EventuallySettled and WorkersSettle (fairness
is out of this prover's reach) and the four violations.

## Races left as they are

The models contain these behaviours because the code has them; the properties are stated
so that they hold beside them. The four violation runs show the ones that contradict a
sentence of the repository most plainly.

Permits, leases, outbox:

- Listing permits expires a claimed permit past its deadline (`agent_autonomy.py:2022`);
  record_receipt then refuses the receipt of an action that was executed.
- Two approval requests for one command lead to two receipts, and `one_or_none()` in
  complete_command (`agent_collaboration.py:934`) then fails for ever.
- An expiry read before a renewal and committed after it ends the renewed lease
  (`agent_coordination.py:410`).
- A publisher that has compared its claim token may record its result over another
  publisher's claim (`outbox.py:231`), and a release may return a published event to
  retry (`outbox.py:180`).
- Two replays that read the same replay_count choose the same delivery id
  (`outbox.py:447`).

Agents:

- Recovery: a stale cycle may set attempt_count back, and its save overwrites a loop that
  was cancelled meanwhile.
- Work items: an assignment whose application raises 409 leaves a "proposed" row that
  blocks the item (`agent_autonomy.py:1345`); force_assign beside it makes a later
  `one_or_none()` raise; a stale revocation may set an item's version back.
- Rooms: the room's lock is lost when `_expire_stale_agents` commits; read_inbox may
  overwrite an acknowledgement.

Federation:

- A sent write that times out can end with a receipt "failed", where `CONTRIBUTING.md:46`
  and `SECURITY.md:32` ask for unknown until reconciled.
- Rejections by an open circuit re-arm its interval; `_mark_failure` and a refresh may
  overwrite disabled or quarantined; a session cancelled while connecting leaves its row
  "connecting"; more than one probe may run.
- A descriptor of a resource or prompt that reverts to an earlier one inserts a second
  revision with the same key, and the refresh fails from then on; concurrent refreshes may mix their
  snapshots.
- Roots: a policy change is not pushed to connections; a root can be approved for two
  servers; a review may approve a grant revoked since.
- Local catalogue: a delta of tools carries no resources or prompts, so these are
  retired; a refused remainder leaves tools committed under the old generation.
- Credentials: a completion or refresh in flight revives a binding revoked during its
  await and overwrites an operator's rotation; of two refreshes one marks auth_required
  although fresh tokens are stored; versions are reused.
- Generations: two replicas that publish at once leave two active projections.

Sessions and clients:

- A stale copy lets resolve_alias quarantine an alias that was just renewed; a key
  rotation seen by one replica only can bind a conversation twice.
- With two replicas an OAuth code can be exchanged twice and a policy generation reused.
- The record of a delivery may overwrite "acknowledged" by "delivered"; a socket lost
  while its backlog is sent stays registered.
- terminate on another replica, or before the process is registered, marks a command
  terminated without killing it.
- A failed hello leaves its connection registered; a request that is cancelled or meets a
  disconnect leaves its pending entry; a restart leaves rows online and invocations
  running.
- A file may be written without a change row, its call left "error" or "running"; a write
  that timed out may run later.
- An interrupted docker create leaves a container without a row; handlers of two replicas
  may leave a row that disagrees with its container.
- Task progress: a sequence number can be lower than an earlier one (stamps precede commits) and exceeds
  2^53; a room of completed and cancelled items is "queued" for ever.
- Readiness: an exception while stopping one service skips the later ones.
- Notes: a save of the user's editor between the provider's read and its rename is lost;
  an update repeated after later changes reports a conflict although it was applied; dead
  processes leave temporary files.
- Prompts: of two channels that share a bundle, one that moves on drops it for the other;
  an unknown bundle (404) counts as revoked.

Records:

- Usage: a completion repeated without explicit time stamps after a lost commit sends a
  different body under the same id and is rejected.
- Cold history: a rehydration fetched before a newer offload may insert the older copy; a
  torn export blocks its batch id.
- Research approvals: the worker's batch can be filled by expired requests
  (`research_write_approval.py:256`), so that later ones wait for ever.

## Not modelled

`PROJECT.json` lists every component with its status. Left out altogether: schema
migrations (SQL run once), bearer authentication (a guard of every action), the SSH adapter and
the AFFiNE provider (I/O without state of their own), metadata discovery of upstreams,
rich results, compatibility and evaluation (pure conversions), tool wrappers and routers
that only translate calls, the web front end and the single-file legacy server. The
unattended research approver is a voter of AutonomyPermits. Inside the modelled
components, listings, formatting, metrics, heartbeats, payload limits and the content of
messages are abstracted; each component's note says what.

## What is left

1. A module for the research approval worker with its batch and its liveness, the one
   hazard without a property.
2. Heartbeats and the expiry of routes and replicas, which several modules take as an
   input.
3. What the second replica of OAuthLineage leaves true of an accepted token, the one part
   of a property that is restricted in the property itself and not by a hypothesis.
