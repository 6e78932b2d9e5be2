----------------------------- MODULE RootGrants -----------------------------
(***************************************************************************)
(* Filesystem roots of federated MCP servers (mcp_root_federation): a      *)
(* server's roots are reported by its thin-client runtime or configured    *)
(* for a Gateway server, reviewed by an operator, and pushed to the        *)
(* connection that may use them.  Grants are bound to the connection       *)
(* instance and the policy generation they were reviewed under.            *)
(*                                                                         *)
(* Reconciliations and reviews select the grants, decide and commit; none  *)
(* of them locks a row, so requests of other replicas get in between, and  *)
(* an UPDATE writes only the columns that differ from what was read.       *)
(***************************************************************************)
EXTENDS Naturals, FiniteSets

CONSTANTS
    RgServers,      \* MCP servers of one owner
    RgThin,         \* those of origin thin_client; the others are Gateway servers
    RgRoots,        \* root_uri_sha256 values
    RgSessions,     \* database sessions of all replicas
    MaxInst,        \* bound on the connections of a thin runtime
    MaxRgPolicy,    \* bound on policy generations
    MaxRgRequests   \* bound on the requests that reconcile or review

ASSUME RootGrantsAssumption ==
    /\ RgThin \subseteq RgServers
    /\ MaxInst \in Nat /\ MaxRgPolicy \in Nat \ {0} /\ MaxRgRequests \in Nat

VARIABLES
    rgPolicy,       \* McpServer.policy_generation
    rgConn,         \* server -> connection -> state of its runtime row; 0 is a Gateway server's session
    rgGrant,        \* McpRootGrant per server and root
    rgHeld,         \* the root set each connection was last given
    rgTx,           \* what each open session has read
    rgRequests      \* requests so far

rgVars == <<rgPolicy, rgConn, rgGrant, rgHeld, rgTx, rgRequests>>

Insts    == 0..MaxInst
Bindings == Insts \X (1..MaxRgPolicy)
Unseen   == <<>>

\* The columns, and two marks that the program does not keep: the connection
\* and policy that the last approval was decided for, and whether requests
\* that write the grant have overlapped since.
GrantRow == [status : {"none", "pending", "approved", "revoked"}, inst : Insts, policy : 1..MaxRgPolicy,
             version : Nat, for : Bindings \cup {Unseen}, raced : BOOLEAN]
NoGrant  == [status |-> "none", inst |-> 0, policy |-> 1, version |-> 0, for |-> Unseen, raced |-> FALSE]

\* A root set names its policy generation; each root is here with the marks
\* of its grant.
RootSet == [policy : 0..MaxRgPolicy, roots : SUBSET (RgRoots \X (Bindings \cup {Unseen}) \X BOOLEAN)]
NoRoots == [policy |-> 0, roots |-> {}]

RgIdle  == [op |-> "idle"]
RgTxRow == {RgIdle}
      \cup [op : {"register", "open", "sync"}, srv : RgServers, inst : Insts, policy : 1..MaxRgPolicy,
            cands : SUBSET RgRoots, rivals : SUBSET Insts, seen : [RgRoots -> GrantRow]]
      \cup [op : {"approved", "revoked"}, srv : RgServers, root : RgRoots, seen : GrantRow,
            policy : 1..MaxRgPolicy]
      \cup [op : {"connecting", "notify"}, srv : RgServers, policy : 1..MaxRgPolicy]

RgTypeOK ==
    /\ rgPolicy \in [RgServers -> 1..MaxRgPolicy]
    /\ rgConn \in [RgServers -> [Insts -> {"none", "online", "stale", "gone"}]]
    /\ rgGrant \in [RgServers -> [RgRoots -> GrantRow]]
    /\ rgHeld \in [RgServers -> [Insts -> RootSet]]
    /\ rgTx \in [RgSessions -> RgTxRow] /\ rgRequests \in 0..MaxRgRequests

RgInit ==
    /\ rgPolicy = [s \in RgServers |-> 1]
    /\ rgConn = [s \in RgServers |-> [i \in Insts |-> "none"]]
    /\ rgGrant = [s \in RgServers |-> [r \in RgRoots |-> NoGrant]]
    /\ rgHeld = [s \in RgServers |-> [i \in Insts |-> NoRoots]]
    /\ rgTx = [x \in RgSessions |-> RgIdle] /\ rgRequests = 0

Live == {"pending", "approved"}

\* _reject_cross_server_reuse: no other server has a live grant of the root.
ReuseRejected(s, r) == \E t \in RgServers \ {s} : rgGrant[t][r].status \in Live

\* An observed root: a changed binding or policy sends it back to review.
\* Mutant: the binding alone is refreshed.
ObservedGrantRebound(g, i, p) ==
    [g EXCEPT !.status = IF @ = "none" THEN "pending" ELSE @, !.inst = i, !.policy = p, !.version = @ + 1]

ObservedGrant(g, i, p) ==
    IF g.status # "none" /\ g.inst = i /\ g.policy = p THEN g
    ELSE [g EXCEPT !.status = "pending", !.inst = i, !.policy = p, !.version = @ + 1]

\* A root of this connection that is reported no longer.
MissingGrant(g, i) ==
    IF g.inst = i /\ g.status \in Live THEN [g EXCEPT !.status = "revoked", !.version = @ + 1] ELSE g

\* What a reconciliation makes of a grant that it has read.
RootReconciled(t, r) ==
    IF r \in t.cands THEN ObservedGrant(t.seen[r], t.inst, t.policy) ELSE MissingGrant(t.seen[r], t.inst)

\* The UPDATE of the ORM: columns that the handler left as it read them keep
\* what the row has by now.
RgFlush(now, seen, new) ==
    [now EXCEPT !.status  = IF new.status = seen.status THEN @ ELSE new.status,
                !.inst    = IF new.inst = seen.inst THEN @ ELSE new.inst,
                !.policy  = IF new.policy = seen.policy THEN @ ELSE new.policy,
                !.version = IF new.version = seen.version THEN @ ELSE new.version]

\* The row that a reconciliation leaves, others being the sessions
\* that have also read the grant to write it.
RowReconciled(now, seen, new, others) ==
    [RgFlush(now, seen, new) EXCEPT !.raced = now.raced \/ others # {}]

\* The row that a review leaves: status and version are written, whatever the
\* others have become.  An approval that nobody interfered with is one of the
\* row as it is.
RowDecided(now, seen, decision, others) ==
    [RgFlush(now, seen, [seen EXCEPT !.status = decision, !.version = @ + 1]) EXCEPT
        !.for   = IF decision = "approved" THEN <<seen.inst, seen.policy>> ELSE now.for,
        !.raced = others # {} \/ (IF decision = "approved" THEN now # seen ELSE now.raced)]

\* approved_root_grants, of the grants g.
ApprovedRoots(g, i, p) ==
    [policy |-> p,
     roots |-> {<<r, g[r].for, g[r].raced>> : r \in {q \in RgRoots :
                  g[q].status = "approved" /\ g[q].inst = i /\ g[q].policy = p}}]

Reconciling(t) == t.op \in {"register", "open", "sync"}
Reviewing(t)   == t.op \in {"approved", "revoked"}

\* The sessions other than x that have read a grant and will write it.
Writers(x, s, r) ==
    {y \in RgSessions \ {x} : \/ Reconciling(rgTx[y]) /\ rgTx[y].srv = s
                              \/ Reviewing(rgTx[y]) /\ rgTx[y].srv = s /\ rgTx[y].root = r}

-----------------------------------------------------------------------------
(* Reconciliation of the roots of a server                                 *)

ReconcileRead(x, op, s, i, cands) ==
    /\ rgTx[x].op = "idle" /\ rgRequests < MaxRgRequests
    /\ ~\E r \in cands : ReuseRejected(s, r)
    /\ rgTx' = [rgTx EXCEPT ![x] =
         [op |-> op, srv |-> s, inst |-> i, policy |-> rgPolicy[s], cands |-> cands,
          rivals |-> {j \in Insts \ {i} : rgConn[s][j] = "online"}, seen |-> rgGrant[s]]]
    /\ rgRequests' = rgRequests + 1
    /\ UNCHANGED <<rgPolicy, rgConn, rgGrant, rgHeld>>

\* register_runtime of a thin client, on a new connection or again on one.
RegisterRead(x, s, i, cands) ==
    /\ s \in RgThin /\ i > 0 /\ rgConn[s][i] # "gone"
    /\ \A j \in 1..(i - 1) : rgConn[s][j] # "none"
    /\ ~\E y \in RgSessions : rgTx[y].op = "register" /\ rgTx[y].srv = s /\ rgTx[y].inst = i
    /\ ReconcileRead(x, "register", s, i, cands)

\* _session and sync_gateway_roots: the configured roots of a Gateway server.
GatewayRead(x, s, cands) ==
    \E op \in {"open", "sync"} : s \notin RgThin /\ ReconcileRead(x, op, s, 0, cands)

\* The rows are written; a row inserted since by another session fails the
\* unique constraint.
Rewritten(x) ==
    LET t == rgTx[x] IN
    /\ \A r \in RgRoots : t.seen[r].status = "none" /\ r \in t.cands => rgGrant[t.srv][r].status = "none"
    /\ rgGrant' = [rgGrant EXCEPT ![t.srv] = [r \in RgRoots |->
         RowReconciled(@[r], t.seen[r], RootReconciled(t, r), Writers(x, t.srv, r))]]
    /\ UNCHANGED <<rgPolicy, rgRequests>>

\* Connections seen online are marked stale, and this one is sent its roots,
\* unless the socket loses them.
RegisterCommit(x) ==
    LET t == rgTx[x] IN
    /\ t.op = "register" /\ Rewritten(x)
    /\ rgConn' = [rgConn EXCEPT ![t.srv] =
         [j \in Insts |-> IF j = t.inst /\ @[j] # "gone" THEN "online"
                          ELSE IF j \in t.rivals /\ @[j] = "online" THEN "stale" ELSE @[j]]]
    /\ \/ rgHeld' = [rgHeld EXCEPT ![t.srv][t.inst] = ApprovedRoots(rgGrant'[t.srv], t.inst, t.policy)]
       \/ UNCHANGED rgHeld
    /\ rgTx' = [rgTx EXCEPT ![x] = RgIdle]

\* A session goes on to connect, a synchronisation to tell the sessions.
GatewayCommit(x) ==
    LET t == rgTx[x] IN
    /\ t.op \in {"open", "sync"} /\ Rewritten(x)
    /\ rgTx' = [rgTx EXCEPT ![x] = [op |-> IF t.op = "open" THEN "connecting" ELSE "notify",
                                    srv |-> t.srv, policy |-> t.policy]]
    /\ UNCHANGED <<rgConn, rgHeld, rgRequests>>

\* The request fails: a conflict, or the process ends.
RgAbort(x) ==
    /\ rgTx[x].op # "idle"
    /\ rgTx' = [rgTx EXCEPT ![x] = RgIdle]
    /\ UNCHANGED <<rgPolicy, rgConn, rgGrant, rgHeld, rgRequests>>

\* Once connected the roots are computed again, of the configured ones and
\* with the server as it was loaded.  One session stands for all of a server.
SessionOnline(x, cands) ==
    LET t == rgTx[x]
        a == ApprovedRoots(rgGrant[t.srv], 0, t.policy)
    IN
    /\ t.op = "connecting"
    /\ rgConn' = [rgConn EXCEPT ![t.srv][0] = "online"]
    /\ rgHeld' = [rgHeld EXCEPT ![t.srv][0] = [a EXCEPT !.roots = {e \in @ : e[1] \in cands}]]
    /\ rgTx' = [rgTx EXCEPT ![x] = RgIdle]
    /\ UNCHANGED <<rgPolicy, rgGrant, rgRequests>>

\* mark_connection_disconnected, or the end of the session.
Close(s, i) ==
    /\ rgConn[s][i] \in {"online", "stale"}
    /\ rgConn' = [rgConn EXCEPT ![s][i] = IF i = 0 THEN "none" ELSE "gone"]
    /\ rgHeld' = [rgHeld EXCEPT ![s][i] = NoRoots]
    /\ UNCHANGED <<rgPolicy, rgGrant, rgTx, rgRequests>>

-----------------------------------------------------------------------------
(* Reviews                                                                 *)

\* review_root_grant of the version that the operator names; an approval
\* needs the policy generation and the runtime of now.
ReviewRead(x, s, r, decision, expected) ==
    LET g == rgGrant[s][r] IN
    /\ rgTx[x].op = "idle" /\ rgRequests < MaxRgRequests /\ g.status # "none" /\ g.version = expected
    /\ decision = "approved" => /\ g.policy = rgPolicy[s]
                                /\ s \in RgThin => g.inst > 0 /\ rgConn[s][g.inst] = "online"
    /\ rgTx' = [rgTx EXCEPT ![x] = [op |-> decision, srv |-> s, root |-> r, seen |-> g,
                                    policy |-> rgPolicy[s]]]
    /\ rgRequests' = rgRequests + 1
    /\ UNCHANGED <<rgPolicy, rgConn, rgGrant, rgHeld>>

ReviewCommit(x) ==
    LET t == rgTx[x] IN
    /\ Reviewing(t)
    /\ rgGrant' = [rgGrant EXCEPT ![t.srv][t.root] =
                     RowDecided(@, t.seen, t.op, Writers(x, t.srv, t.root))]
    /\ rgTx' = [rgTx EXCEPT ![x] = [op |-> "notify", srv |-> t.srv, policy |-> t.policy]]
    /\ UNCHANGED <<rgPolicy, rgConn, rgHeld, rgRequests>>

\* notify_root_grant_change, with the server as loaded: the newest connection
\* online, if this replica can reach it, is given what is approved now.
NotifyRootGrantChange(x) ==
    LET t == rgTx[x]
        online == {i \in Insts : rgConn[t.srv][i] = "online"}
    IN
    /\ t.op = "notify"
    /\ \E i \in online :
         /\ \A j \in online : j <= i
         /\ rgHeld' = [rgHeld EXCEPT ![t.srv][i] = ApprovedRoots(rgGrant[t.srv], i, t.policy)]
    /\ rgTx' = [rgTx EXCEPT ![x] = RgIdle]
    /\ UNCHANGED <<rgPolicy, rgConn, rgGrant, rgRequests>>

\* A policy update moves the generation; connections are not told.
ChangePolicy(s) ==
    /\ rgPolicy[s] < MaxRgPolicy
    /\ rgPolicy' = [rgPolicy EXCEPT ![s] = @ + 1]
    /\ UNCHANGED <<rgConn, rgGrant, rgHeld, rgTx, rgRequests>>

RgNext ==
    \/ \E x \in RgSessions :
         \/ RegisterCommit(x) \/ GatewayCommit(x) \/ RgAbort(x)
         \/ ReviewCommit(x) \/ NotifyRootGrantChange(x)
         \/ \E cands \in SUBSET RgRoots :
              \/ SessionOnline(x, cands)
              \/ \E s \in RgServers : GatewayRead(x, s, cands)
              \/ \E s \in RgServers, i \in Insts : RegisterRead(x, s, i, cands)
         \/ \E s \in RgServers, r \in RgRoots, decision \in {"approved", "revoked"}, v \in 0..MaxRgRequests :
              ReviewRead(x, s, r, decision, v)
    \/ \E s \in RgServers : ChangePolicy(s)
    \/ \E s \in RgServers, i \in Insts : Close(s, i)

RgSpec == RgInit /\ [][RgNext]_rgVars

-----------------------------------------------------------------------------
\* Whatever reconnections, policy updates and root inventories come between, a
\* connection is only given roots that an operator approved for the server;
\* and the approval was for this connection instance and for the policy
\* generation named with the roots, unless another request that writes the
\* grant overlapped (review_root_grant and the reconciliations lock nothing).
HeldRootsWereReviewed ==
    \A s \in RgServers, i \in Insts : \A e \in rgHeld[s][i].roots :
       e[2] # Unseen /\ (e[2] = <<i, rgHeld[s][i].policy>> \/ e[3])
=============================================================================
