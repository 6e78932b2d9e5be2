---------------------------- MODULE ThinClients ----------------------------
(***************************************************************************)
(* A thin client and its control connections: the connections the Gateway  *)
(* process holds in ThinClientConnectionManager, the requests pending on   *)
(* them, the runtime-connection rows of its local MCP server, and the      *)
(* records of the calls.  A handler runs on the event loop and is atomic   *)
(* between two awaits that can suspend.  Sockets die at any time, the      *)
(* client may reconnect before its old connection is noticed dead, answers *)
(* may be late or lost, and the process may restart.                       *)
(***************************************************************************)
EXTENDS Naturals, Sequences

CONSTANTS
    TcConns,        \* control connections, each used once
    TcReqs,         \* requests to the client, each made once
    NoConn,
    MaxRestarts     \* bound on restarts of the process

ASSUME ThinClientsAssumption ==
    NoConn \notin TcConns /\ MaxRestarts \in Nat

VARIABLES
    tcClient,       \* ThinClient.status, or absent
    tcList,         \* _connections of the client, oldest first
    tcConn,         \* the connections and where their handlers stand
    tcRow,          \* McpRuntimeConnection.state per connection_instance_id
    tcServer,       \* McpServer.status of the client's local server
    tcReq,          \* the requests: task, pending entry and future
    tcFrame,        \* what the client did with the request
    tcInv,          \* McpInvocation.outcome of calls
    tcRestarts

tcVars == <<tcClient, tcList, tcConn, tcRow, tcServer, tcReq, tcFrame, tcInv, tcRestarts>>

ConnRow == [phase : {"new", "hello", "open", "registering", "leaked", "closed"},
            alive : BOOLEAN, stale : BOOLEAN, runtime : BOOLEAN]
RuntimeRow == {"none", "online", "stale", "offline", "failed", "restarting"}
ReqRow == [phase : {"idle", "queued", "sending", "waiting", "done"},
           kind : {"legacy", "write", "read"}, conn : TcConns \cup {NoConn},
           pending : BOOLEAN, dispatched : BOOLEAN,
           cut : BOOLEAN,      \* history: failed while its send was suspended
           future : {"none", "answer", "lost", "unknown"}]

TcTypeOK ==
    /\ tcClient \in {"absent", "offline", "online"}
    /\ tcList \in Seq(TcConns)
    /\ tcConn \in [TcConns -> ConnRow]
    /\ tcRow \in [TcConns -> RuntimeRow]
    /\ tcServer \in {"none", "discovering", "online", "degraded", "offline", "restarting"}
    /\ tcReq \in [TcReqs -> ReqRow]
    /\ tcFrame \in [TcReqs -> {"none", "sent", "ran", "answered"}]
    /\ tcInv \in [TcReqs -> {"none", "running", "answered", "lost", "unknown"}]
    /\ tcRestarts \in 0..MaxRestarts

TcInit ==
    /\ tcClient = "absent" /\ tcList = <<>> /\ tcServer = "none" /\ tcRestarts = 0
    /\ tcConn = [k \in TcConns |-> [phase |-> "new", alive |-> TRUE, stale |-> FALSE, runtime |-> FALSE]]
    /\ tcRow = [k \in TcConns |-> "none"]
    /\ tcReq = [r \in TcReqs |-> [phase |-> "idle", kind |-> "legacy", conn |-> NoConn,
                                  pending |-> FALSE, dispatched |-> FALSE, cut |-> FALSE, future |-> "none"]]
    /\ tcFrame = [r \in TcReqs |-> "none"]
    /\ tcInv = [r \in TcReqs |-> "none"]

Listed == {tcList[i] : i \in DOMAIN tcList}
\* The list filtered for other connections than k: a connection is accepted
\* once, so k is there once at most and its position is all there is to drop.
Without(k) ==
    IF k \notin Listed THEN tcList
    ELSE LET i == CHOOSE j \in DOMAIN tcList : tcList[j] = k
         IN  SubSeq(tcList, 1, i - 1) \o SubSeq(tcList, i + 1, Len(tcList))
IsConnected(list, conn) == \E i \in DOMAIN list : ~conn[list[i]].stale

-----------------------------------------------------------------------------
(* Enrolment and connections *)

RegisterThinClient ==
    /\ tcClient # "online"
    /\ tcClient' = "online"
    /\ UNCHANGED <<tcList, tcConn, tcRow, tcServer, tcReq, tcFrame, tcInv, tcRestarts>>

Accept(k) ==
    /\ tcConn[k].phase = "new" /\ tcClient # "absent"
    /\ tcClient' = "online"
    /\ tcList' = Append(tcList, k)
    /\ tcConn' = [tcConn EXCEPT ![k].phase = "hello"]
    /\ UNCHANGED <<tcRow, tcServer, tcReq, tcFrame, tcInv, tcRestarts>>

\* The hello is sent before the try: if it fails, nothing unregisters.
Hello(k) ==
    /\ tcConn[k].phase = "hello"
    /\ tcConn' = [tcConn EXCEPT ![k].phase = IF tcConn[k].alive THEN "open" ELSE "leaked"]
    /\ UNCHANGED <<tcClient, tcList, tcRow, tcServer, tcReq, tcFrame, tcInv, tcRestarts>>

SocketDies(k) ==
    /\ tcConn[k].phase \in {"hello", "open", "registering"} /\ tcConn[k].alive
    /\ tcConn' = [tcConn EXCEPT ![k].alive = FALSE]
    /\ UNCHANGED <<tcClient, tcList, tcRow, tcServer, tcReq, tcFrame, tcInv, tcRestarts>>

\* send_json has the frame and has not returned: dispatched is not set yet.
Sending(q) == q.phase = "sending"

UnknownIfInterrupted(q) == q.dispatched /\ q.kind = "write"

\* _fail_pending_for_connection, for the connections ks.
FailPending(ks) ==
    [r \in TcReqs |->
       IF tcReq[r].pending /\ tcReq[r].conn \in ks
       THEN [tcReq[r] EXCEPT !.pending = FALSE, !.cut = IF Sending(tcReq[r]) THEN TRUE ELSE @,
               !.future = IF @ # "none" THEN @
                          ELSE IF UnknownIfInterrupted(tcReq[r]) THEN "unknown" ELSE "lost"]
       ELSE tcReq[r]]

\* ThinClientConnectionManager.register_runtime: earlier connections of the
\* runtime are stale; closing them suspends the handler.
NegotiateRuntime(k) ==
    LET old == {c \in Listed \ {k} : tcConn[c].runtime} IN
    /\ tcConn[k].phase = "open" /\ k \in Listed
    /\ tcConn' = [c \in TcConns |->
         CASE c = k -> [tcConn[c] EXCEPT !.phase = "registering", !.runtime = TRUE, !.stale = FALSE]
           [] c \in old -> [tcConn[c] EXCEPT !.stale = TRUE, !.alive = FALSE]
           [] OTHER -> tcConn[c]]
    /\ tcReq' = FailPending(old)
    /\ UNCHANGED <<tcClient, tcList, tcRow, tcServer, tcFrame, tcInv, tcRestarts>>

\* register_runtime: the rows of earlier connections become stale.
RowsAfter(k) ==
    [c \in TcConns |-> IF c = k THEN "online" ELSE IF tcRow[c] = "online" THEN "stale" ELSE tcRow[c]]

PersistRuntime(k) ==
    /\ tcConn[k].phase = "registering"
    /\ tcConn' = [tcConn EXCEPT ![k].phase = "open"]
    /\ IF tcClient = "absent" THEN UNCHANGED <<tcClient, tcRow, tcServer>>
       ELSE tcClient' = "online" /\ tcRow' = RowsAfter(k) /\ tcServer' = "discovering"
    /\ UNCHANGED <<tcList, tcReq, tcFrame, tcInv, tcRestarts>>

Heartbeat(k) ==
    /\ tcConn[k].phase = "open" /\ tcClient = "offline"
    /\ tcClient' = "online"
    /\ UNCHANGED <<tcList, tcConn, tcRow, tcServer, tcReq, tcFrame, tcInv, tcRestarts>>

\* Mutant: the status reported is stored as it is.
ServerStatusRaw(k, st) ==
    /\ tcConn[k].phase = "open" /\ tcRow[k] = "online"
    /\ tcRow' = [tcRow EXCEPT ![k] = IF st = "degraded" THEN "online" ELSE st]
    /\ tcServer' = st
    /\ UNCHANGED <<tcClient, tcList, tcConn, tcReq, tcFrame, tcInv, tcRestarts>>

\* record_server_status, from a connection whose row is online.
ServerStatus(k, st) ==
    /\ tcConn[k].phase = "open" /\ tcRow[k] = "online"
    /\ tcRow' = [tcRow EXCEPT ![k] = IF st = "degraded" THEN "online" ELSE st]
    /\ tcServer' = IF st = "failed" THEN "degraded" ELSE st
    /\ UNCHANGED <<tcClient, tcList, tcConn, tcReq, tcFrame, tcInv, tcRestarts>>

\* mark_connection_disconnected, for the row and the server.
LostRow(k) == tcRow[k] \in {"online", "restarting"}

MarkServer(k) ==
    tcServer' = IF LostRow(k) /\ \A c \in TcConns \ {k} : tcRow[c] # "online"
                THEN "offline" ELSE tcServer

\* mark_connection_disconnected, for the calls still running.
LostCalls(k) ==
    [r \in TcReqs |-> IF tcInv[r] = "running" /\ tcReq[r].conn = k
                      THEN (IF tcReq[r].kind = "write" THEN "unknown" ELSE "lost") ELSE tcInv[r]]

\* Mutant: a client is offline as soon as a connection goes.
UnregisterAlone(k) ==
    /\ tcList' = Without(k)
    /\ tcReq' = FailPending({k})
    /\ tcClient' = IF k \in Listed /\ tcClient # "absent" THEN "offline" ELSE tcClient

\* unregister; without a live connection left the client is offline.
Unregister(k) ==
    /\ tcList' = Without(k)
    /\ tcReq' = FailPending({k})
    /\ tcClient' = IF k \in Listed /\ ~IsConnected(Without(k), tcConn) /\ tcClient # "absent"
                   THEN "offline" ELSE tcClient

\* The handler finds its socket closed and runs its finally.
Disconnected(k) ==
    /\ tcConn[k].phase \in {"open", "registering"} /\ ~tcConn[k].alive
    /\ tcConn' = [tcConn EXCEPT ![k].phase = "closed"]
    /\ tcRow' = [tcRow EXCEPT ![k] = IF LostRow(k) /\ tcConn[k].runtime THEN "offline" ELSE @]
    /\ IF tcConn[k].runtime THEN MarkServer(k) /\ tcInv' = LostCalls(k)
                            ELSE UNCHANGED <<tcServer, tcInv>>
    /\ Unregister(k)
    /\ UNCHANGED <<tcFrame, tcRestarts>>

\* delete_thin_client unregisters every connection, then closes them.
DeleteThinClient ==
    /\ tcClient # "absent"
    /\ tcClient' = "absent"
    /\ tcList' = <<>>
    /\ tcReq' = FailPending(Listed)
    /\ tcConn' = [c \in TcConns |-> IF c \in Listed THEN [tcConn[c] EXCEPT !.alive = FALSE] ELSE tcConn[c]]
    /\ UNCHANGED <<tcRow, tcServer, tcFrame, tcInv, tcRestarts>>

-----------------------------------------------------------------------------
(* Requests *)

Queue(r, k, kind) ==
    /\ tcReq[r].phase = "idle"
    /\ tcReq' = [tcReq EXCEPT ![r] = [phase |-> "queued", kind |-> kind, conn |-> k,
                                      pending |-> TRUE, dispatched |-> FALSE, cut |-> FALSE, future |-> "none"]]
    /\ UNCHANGED <<tcClient, tcList, tcConn, tcRow, tcServer, tcFrame, tcRestarts>>

\* request: the newest connection, stale or not.
Request(r) ==
    /\ tcList # <<>>
    /\ Queue(r, tcList[Len(tcList)], "legacy")
    /\ UNCHANGED tcInv

\* active_mcp_connection: the newest that is not stale.
ActiveConn(k) ==
    /\ k \in Listed /\ tcConn[k].runtime /\ ~tcConn[k].stale
    /\ \A i, j \in DOMAIN tcList :
         tcList[i] = k /\ j > i => ~tcConn[tcList[j]].runtime \/ tcConn[tcList[j]].stale

\* _call_thin_client and request_mcp: the row of the connection is online.
RequestMcp(r, k, kind) ==
    /\ ActiveConn(k) /\ tcRow[k] = "online"
    /\ tcInv' = [tcInv EXCEPT ![r] = "running"]
    /\ Queue(r, k, kind)

RequestMcpResource(r, k) == ActiveConn(k) /\ tcRow[k] = "online" /\ Queue(r, k, "read") /\ UNCHANGED tcInv

\* request_mcp_prompt and request_mcp_completion.
RequestMcpCapability(r, k) == ActiveConn(k) /\ tcRow[k] = "online" /\ Queue(r, k, "read") /\ UNCHANGED tcInv

\* send_lock: one frame at a time.
LockFree(k) == \A r \in TcReqs : ~(Sending(tcReq[r]) /\ tcReq[r].conn = k)

Send(r) ==
    /\ tcReq[r].phase = "queued" /\ LockFree(tcReq[r].conn) /\ tcConn[tcReq[r].conn].alive
    /\ tcFrame' = [tcFrame EXCEPT ![r] = "sent"]
    /\ tcReq' = [tcReq EXCEPT ![r].phase = "sending"]
    /\ UNCHANGED <<tcClient, tcList, tcConn, tcRow, tcServer, tcInv, tcRestarts>>

SendReturns(r) ==
    /\ tcReq[r].phase = "sending"
    /\ tcReq' = [tcReq EXCEPT ![r].phase = "waiting", ![r].dispatched = TRUE]
    /\ UNCHANGED <<tcClient, tcList, tcConn, tcRow, tcServer, tcFrame, tcInv, tcRestarts>>

\* What the caller is told, and what the record of a call says.
FinishInvocation(r, pending, out) ==
    /\ tcReq' = [tcReq EXCEPT ![r].phase = "done", ![r].pending = pending,
                              ![r].cut = IF Sending(tcReq[r]) THEN TRUE ELSE @]
    /\ tcInv' = IF tcInv[r] = "none" THEN tcInv ELSE [tcInv EXCEPT ![r] = out]
    /\ UNCHANGED <<tcClient, tcList, tcConn, tcRow, tcServer, tcFrame, tcRestarts>>

\* A WebSocketDisconnect of an MCP request leaves its pending entry.
SendFails(r) ==
    /\ tcReq[r].phase \in {"queued", "sending"} /\ ~tcConn[tcReq[r].conn].alive
    /\ \E p \in {FALSE} \cup {x \in {tcReq[r].pending} : tcReq[r].kind # "legacy"} :
         FinishInvocation(r, p, "lost")

TimeoutOutcome(q) == IF UnknownIfInterrupted(q) THEN "unknown" ELSE "lost"

\* Mutant: only a request that was not sent yet is timed.
RequestTimeoutUnsent(r) ==
    /\ tcReq[r].phase = "waiting" /\ tcReq[r].future = "none" /\ ~tcReq[r].dispatched
    /\ FinishInvocation(r, FALSE, TimeoutOutcome(tcReq[r]))

RequestTimeout(r) ==
    /\ tcReq[r].phase = "waiting" /\ tcReq[r].future = "none"
    /\ FinishInvocation(r, FALSE, TimeoutOutcome(tcReq[r]))

Settle(r) ==
    /\ tcReq[r].phase = "waiting" /\ tcReq[r].future # "none"
    /\ FinishInvocation(r, FALSE, IF tcReq[r].future = "answer" THEN "answered" ELSE tcReq[r].future)

\* The caller's task is cancelled; nothing is cleaned up.
CancelRequest(r) ==
    /\ tcReq[r].phase \in {"queued", "sending", "waiting"}
    /\ tcReq' = [tcReq EXCEPT ![r].phase = "done"]
    /\ UNCHANGED <<tcClient, tcList, tcConn, tcRow, tcServer, tcFrame, tcInv, tcRestarts>>

ClientRuns(r) ==
    /\ tcFrame[r] = "sent"
    /\ tcFrame' = [tcFrame EXCEPT ![r] = "ran"]
    /\ UNCHANGED <<tcClient, tcList, tcConn, tcRow, tcServer, tcReq, tcInv, tcRestarts>>

\* complete takes a legacy answer from any connection; complete_mcp only from
\* the live connection the request went to.
Exact(r, k) == tcReq[r].kind = "legacy" \/ (tcReq[r].conn = k /\ ~tcConn[k].stale)

\* The client answers, on whatever connection it has now.
Answer(r, k) ==
    /\ tcFrame[r] = "ran" /\ tcConn[k].phase = "open"
    /\ tcFrame' = [tcFrame EXCEPT ![r] = "answered"]
    /\ tcReq' = IF tcReq[r].pending /\ Exact(r, k)
                THEN [tcReq EXCEPT ![r].pending = FALSE,
                                   ![r].future = IF @ = "none" THEN "answer" ELSE @]
                ELSE tcReq
    /\ UNCHANGED <<tcClient, tcList, tcConn, tcRow, tcServer, tcInv, tcRestarts>>

\* Memory is gone; rows stay as they are.
GatewayRestart ==
    /\ tcRestarts < MaxRestarts
    /\ tcRestarts' = tcRestarts + 1
    /\ tcList' = <<>>
    /\ tcConn' = [c \in TcConns |-> IF tcConn[c].phase = "new" THEN tcConn[c]
                                    ELSE [tcConn[c] EXCEPT !.phase = "closed", !.alive = FALSE]]
    /\ tcReq' = [r \in TcReqs |-> IF tcReq[r].phase = "idle" THEN tcReq[r]
                                  ELSE [tcReq[r] EXCEPT !.phase = "done", !.pending = FALSE]]
    /\ UNCHANGED <<tcClient, tcRow, tcServer, tcFrame, tcInv>>

TcNext ==
    \/ RegisterThinClient \/ DeleteThinClient \/ GatewayRestart
    \/ \E k \in TcConns :
         \/ Accept(k) \/ Hello(k) \/ SocketDies(k) \/ NegotiateRuntime(k) \/ PersistRuntime(k)
         \/ Heartbeat(k) \/ Disconnected(k)
         \/ \E st \in {"online", "degraded", "offline", "failed", "restarting"} : ServerStatus(k, st)
    \/ \E r \in TcReqs :
         \/ Request(r) \/ Send(r) \/ SendReturns(r) \/ SendFails(r) \/ RequestTimeout(r)
         \/ Settle(r) \/ CancelRequest(r) \/ ClientRuns(r)
         \/ \E k \in TcConns : \/ \E kind \in {"write", "read"} : RequestMcp(r, k, kind)
                               \/ RequestMcpResource(r, k) \/ RequestMcpCapability(r, k)
                               \/ Answer(r, k)

\* A request's task runs, and its timer fires; a send that cannot finish is
\* ended by the keep-alive of the socket.
TcFairness ==
    \A r \in TcReqs : WF_tcVars(Send(r) \/ SendReturns(r) \/ SendFails(r) \/ RequestTimeout(r) \/ Settle(r))

TcSpec == TcInit /\ [][TcNext]_tcVars
TcFairSpec == TcSpec /\ TcFairness

-----------------------------------------------------------------------------
\* At most one connection instance of the local server counts as online,
\* however registrations of reconnecting clients overlap.
OneRuntimeOnline == \A j, k \in TcConns : tcRow[j] = "online" /\ tcRow[k] = "online" => j = k

\* The server is not shown offline while a connection of it is online.
OfflineServerHasNoRuntime == tcServer = "offline" => \A k \in TcConns : tcRow[k] # "online"

\* A client shown offline has no usable connection: the late end of an old
\* connection does not take the newer one with it.
OfflineMeansNoneConnected ==
    tcClient = "offline" =>
        \A k \in Listed : tcConn[k].stale \/ tcConn[k].phase \in {"registering", "leaked"}

\* No request waits for an answer on a connection that is gone.
PendingOnListedConnection == \A r \in TcReqs : tcReq[r].pending => tcReq[r].conn \in Listed

\* A write recorded as lost, which a caller may repeat, was not and will not
\* be run by the client, with one exception: its connection or its send
\* failed while send_json was suspended, the frame out and dispatched unset.
LostWriteDidNotRun ==
    \A r \in TcReqs : tcReq[r].kind = "write" /\ tcInv[r] = "lost" => tcFrame[r] = "none" \/ tcReq[r].cut

\* Every request comes back to its caller.
RequestSettles == \A r \in TcReqs : tcReq[r].phase \in {"queued", "sending", "waiting"} ~> tcReq[r].phase = "done"

\* The rows agree with the sockets, however connections of one client overlap
\* and end out of order; and no request waits on a connection that is gone.
ThinClientsSound ==
    /\ OneRuntimeOnline /\ OfflineServerHasNoRuntime /\ OfflineMeansNoneConnected
    /\ PendingOnListedConnection /\ LostWriteDidNotRun
=============================================================================
