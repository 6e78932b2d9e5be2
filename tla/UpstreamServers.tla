--------------------------- MODULE UpstreamServers ---------------------------
(***************************************************************************)
(* One upstream MCP server as UpstreamMcpManager sees it: the calls in     *)
(* flight (tool calls, prompt, completion and resource reads, tests and    *)
(* catalogue refreshes), the circuit breaker and the concurrency limit     *)
(* every one of them passes in _bounded, the runtime-connection row of its *)
(* session, and the server's status.                                       *)
(***************************************************************************)
EXTENDS Naturals, FiniteSets

CONSTANTS
    UsCalls,        \* calls in flight at a time
    UsThreshold,    \* circuit_failure_threshold
    UsLimit,        \* max_concurrency_per_server
    UsDelay         \* length of an open interval, in ticks

ASSUME UpstreamServersAssumption ==
    UsThreshold \in Nat \ {0} /\ UsLimit \in Nat \ {0} /\ UsDelay \in Nat

VARIABLES
    usStatus,       \* McpServer.status
    usFail,         \* CircuitState.failures, saturated at the threshold
    usCool,         \* ticks until open_until_monotonic
    usProbe,        \* half_open_probe_active of the current CircuitState
    usCall,         \* the calls in flight
    usRow           \* McpRuntimeConnection.state of the latest session of a call

usVars == <<usStatus, usFail, usCool, usProbe, usCall, usRow>>

\* "read" is a prompt, completion or resource read, "test" also a refresh.
Kinds == {"call", "read", "test"}
\* "offline" stands for every status _mark_failure gives except disabled.
Statuses == {"draft", "discovering", "online", "offline", "disabled"}
UsIdle == [op |-> "idle"]

UsTypeOK ==
    /\ usStatus \in Statuses /\ usFail \in 0..UsThreshold /\ usCool \in 0..UsDelay
    /\ usProbe \in BOOLEAN
    /\ usRow \in [UsCalls -> {"none", "connecting", "online", "closed", "failed"}]
    /\ usCall \in [UsCalls -> {UsIdle} \cup
         [op : {"queued", "connecting", "online"}, kind : Kinds,
          probe : {"none", "own", "orphan"}, loaded : Statuses]]

UsInit ==
    /\ usStatus = "draft" /\ usFail = 0 /\ usCool = 0 /\ usProbe = FALSE
    /\ usCall = [c \in UsCalls |-> UsIdle]
    /\ usRow = [c \in UsCalls |-> "none"]

\* _record_failure; a rejection by _bounded itself is recorded as well.
RecordFailure ==
    LET f == IF usFail < UsThreshold THEN usFail + 1 ELSE usFail IN
    /\ usFail' = f
    /\ usCool' = IF f = UsThreshold THEN UsDelay ELSE usCool
    /\ usProbe' = FALSE

\* _record_success: a new CircuitState; a probe of the old one is orphaned.
RecordSuccess(c) ==
    /\ usFail' = 0 /\ usCool' = 0 /\ usProbe' = FALSE
    /\ usCall' = [d \in UsCalls |->
         IF d = c \/ usCall[d] = UsIdle THEN (IF d = c THEN UsIdle ELSE usCall[d])
         ELSE [usCall[d] EXCEPT !.probe = IF @ = "own" THEN "orphan" ELSE @]]

\* _mark_failure writes the status over what another session put there,
\* unless it is the one this session loaded; reads do not mark.
MarkFailure(kind, loaded) ==
    IF kind = "read" THEN usStatus' = usStatus
    ELSE \E st \in {"offline"} \cup {x \in {"disabled"} : loaded = "disabled"} :
           usStatus' = IF st = loaded THEN usStatus ELSE st

Admitted == usStatus # "disabled" /\ usCool = 0 /\ ~(usFail > 0 /\ usProbe)

\* _bounded, up to the semaphores.
Enter(c, kind) ==
    /\ usCall[c] = UsIdle /\ Admitted
    /\ usCall' = [usCall EXCEPT ![c] = [op |-> "queued", kind |-> kind, loaded |-> usStatus,
                                        probe |-> IF usFail > 0 THEN "own" ELSE "none"]]
    /\ usProbe' = (usProbe \/ usFail > 0)
    /\ UNCHANGED <<usStatus, usFail, usCool, usRow>>

\* Refused: disabled, over a quota, circuit open or a probe under way.
Refused(c, kind) ==
    /\ usCall[c] = UsIdle
    /\ RecordFailure
    /\ MarkFailure(kind, usStatus)
    /\ UNCHANGED <<usCall, usRow>>

\* The handlers that go through _bounded.
CallExactRevision(c) == Enter(c, "call") \/ Refused(c, "call")
GetExactPrompt(c) == Enter(c, "read") \/ Refused(c, "read")
CompleteExactReference(c) == Enter(c, "read") \/ Refused(c, "read")
ReadExactResource(c) == Enter(c, "read") \/ Refused(c, "read")
TestServer(c) == Enter(c, "test") \/ Refused(c, "test")
RefreshServer(c) == Enter(c, "test") \/ Refused(c, "test")

Running == {c \in UsCalls : usCall[c].op \in {"connecting", "online"}}

\* The semaphores let the call through; _session adds its runtime row.
Connect(c) ==
    /\ usCall[c].op = "queued" /\ Cardinality(Running) < UsLimit
    /\ usCall' = [usCall EXCEPT ![c].op = "connecting"]
    /\ usRow' = [usRow EXCEPT ![c] = "connecting"]
    /\ UNCHANGED <<usStatus, usFail, usCool, usProbe>>

Online(c) ==
    /\ usCall[c].op = "connecting"
    /\ usCall' = [usCall EXCEPT ![c].op = "online"]
    /\ usRow' = [usRow EXCEPT ![c] = "online"]
    /\ UNCHANGED <<usStatus, usFail, usCool, usProbe>>

\* The session closes and the outcome is recorded; a test or a refresh
\* marks the server online.
Succeed(c) ==
    /\ usCall[c].op = "online"
    /\ RecordSuccess(c)
    /\ usRow' = [usRow EXCEPT ![c] = "closed"]
    /\ usStatus' = IF usCall[c].kind = "test" /\ usCall[c].loaded # "online"
                   THEN "online" ELSE usStatus

Fail(c) ==
    /\ usCall[c].op \in {"connecting", "online"}
    /\ RecordFailure
    /\ MarkFailure(usCall[c].kind, usCall[c].loaded)
    /\ usCall' = [usCall EXCEPT ![c] = UsIdle]
    /\ \E r \in {"failed"} \cup {x \in {"closed"} : usCall[c].op = "online"} :
         usRow' = [usRow EXCEPT ![c] = r]

\* Mutant: the probe flag of a cancelled call stays up.
CancelKeepsProbe(c) ==
    /\ usCall[c] # UsIdle
    /\ usCall' = [usCall EXCEPT ![c] = UsIdle]
    /\ usRow' = [usRow EXCEPT ![c] = IF @ = "online" THEN "closed" ELSE @]
    /\ UNCHANGED <<usStatus, usFail, usCool, usProbe>>

\* The request is cancelled: only the finally clauses run.
Cancel(c) ==
    /\ usCall[c] # UsIdle
    /\ usProbe' = (usProbe /\ usCall[c].probe # "own")
    /\ usCall' = [usCall EXCEPT ![c] = UsIdle]
    /\ usRow' = [usRow EXCEPT ![c] = IF @ = "online" THEN "closed" ELSE @]
    /\ UNCHANGED <<usStatus, usFail, usCool>>

Tick ==
    /\ usCool > 0
    /\ usCool' = usCool - 1
    /\ UNCHANGED <<usStatus, usFail, usProbe, usCall, usRow>>

\* update_server, disable_server, request_server_transition.
SetStatus ==
    /\ \/ usStatus' = "disabled"
       \/ usStatus = "disabled" /\ usStatus' = "draft"
       \/ usStatus # "disabled" /\ usStatus' = "discovering"
    /\ UNCHANGED <<usFail, usCool, usProbe, usCall, usRow>>

UsNext ==
    \/ Tick \/ SetStatus
    \/ \E c \in UsCalls :
         \/ CallExactRevision(c) \/ GetExactPrompt(c) \/ CompleteExactReference(c)
         \/ ReadExactResource(c) \/ TestServer(c) \/ RefreshServer(c)
         \/ Connect(c) \/ Online(c) \/ Succeed(c) \/ Fail(c) \/ Cancel(c)

UsSpec == UsInit /\ [][UsNext]_usVars

-----------------------------------------------------------------------------
\* The probe flag that keeps every other caller out is never left behind: the
\* call that set it is still in flight, whatever failed, succeeded or was
\* cancelled meanwhile.
ProbeFlagHasItsProbe == usProbe => \E c \in UsCalls : usCall[c].op # "idle" /\ usCall[c].probe = "own"

\* A runtime row says online exactly while its session lives.
OnlineRowsAreSessions == \A c \in UsCalls : usRow[c] = "online" <=> usCall[c].op = "online"

\* Cancellations at any await leave neither a probe flag that blocks the
\* circuit for ever nor a row that claims a session nobody has.
UpstreamSound == ProbeFlagHasItsProbe /\ OnlineRowsAreSessions
=============================================================================
