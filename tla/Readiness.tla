------------------------------ MODULE Readiness ------------------------------
(***************************************************************************)
(* Start-up, shutdown and readiness of one gateway process: the lifespan   *)
(* of main.py, the readiness cache that re-validates the schema in a       *)
(* thread (readiness_cache.py), the metrics cache built the same way       *)
(* (metrics_cache.py) and the /ready handler, which reads the cache, then  *)
(* waits for a probe of the database, then answers.  Steps of the start and*)
(* of the finally block may raise, a refresh may fail or outlive the task  *)
(* that asked for it, and the schema may become incompatible while the     *)
(* process runs.                                                           *)
(***************************************************************************)
EXTENDS Integers, Sequences, FiniteSets

CONSTANTS
    RdProbes,       \* /ready requests
    RdMaxStale,     \* gateway_readiness_max_stale_seconds
    RdProbeTime,    \* gateway_readiness_probe_timeout_seconds
    RdLag,          \* longest time from a schema check to the stamp of its snapshot
    RdMaxTime       \* bound on the clock

ASSUME RdAssumption ==
    RdMaxStale \in Nat /\ RdProbeTime \in Nat /\ RdLag \in Nat /\ RdMaxTime \in Nat

VARIABLES
    rdPhase,        \* initialization_status
    rdStep,         \* next step of the start
    rdStop,         \* next step of the finally block (0: not there yet)
    rdUp,           \* parts that run
    rdSchema,       \* is the database schema compatible
    rdCache,        \* per cache: time of the last success (-1: none)
    rdThread,       \* per cache: the thread inside refresh_sync
    rdVerified,     \* history: when the schema was last found compatible (-1: never)
    rdProbe,        \* /ready handlers
    rdNow

rdVars == <<rdPhase, rdStep, rdStop, rdUp, rdSchema, rdCache, rdThread, rdVerified, rdProbe, rdNow>>

Starts == <<"schema", "cold_history", "seed", "runtime", "readiness", "metrics", "research">>
Parts == {"runtime", "readiness", "metrics", "research"}
Caches == {"readiness", "metrics"}
NoProbe == [step |-> "idle", valid |-> FALSE, ready |-> FALSE, since |-> 0]

RdInit ==
    /\ rdPhase = "starting" /\ rdStep = 1 /\ rdStop = 0 /\ rdUp = {}
    /\ rdSchema \in BOOLEAN
    /\ rdCache = [k \in Caches |-> -1]
    /\ rdThread = [k \in Caches |-> "idle"]
    /\ rdVerified = -1
    /\ rdProbe = [h \in RdProbes |-> NoProbe]
    /\ rdNow = 0
-----------------------------------------------------------------------------
(* The lifespan.                                                           *)
StartStep ==
    /\ rdPhase = "starting" /\ rdStep <= Len(Starts)
    /\ LET s == Starts[rdStep] IN
       /\ s = "schema" => rdSchema
       /\ rdUp' = IF s \in Parts THEN rdUp \cup {s} ELSE rdUp
       /\ rdVerified' = IF s = "schema" THEN rdNow ELSE rdVerified
       /\ rdCache' = IF s = "seed" THEN [rdCache EXCEPT !["readiness"] = rdNow] ELSE rdCache
    /\ rdStep' = rdStep + 1
    /\ rdPhase' = IF rdStep = Len(Starts) THEN "ready" ELSE rdPhase
    /\ UNCHANGED <<rdStop, rdSchema, rdThread, rdProbe, rdNow>>

\* An incompatible schema, an unreachable history service, a database error
\* while the replica is registered, a refused configuration of the research
\* worker.  A runtime whose start is cut short may leave its tasks running.
StartFails ==
    /\ rdPhase = "starting" /\ rdStep <= Len(Starts)
    /\ Starts[rdStep] \in {"schema", "cold_history", "seed", "runtime", "research"}
    /\ rdUp' \in {rdUp} \cup {rdUp \cup {p} : p \in {"runtime"} \cap {Starts[rdStep]}}
    /\ rdPhase' = "failed" /\ rdStop' = 1
    /\ UNCHANGED <<rdStep, rdSchema, rdCache, rdThread, rdVerified, rdProbe, rdNow>>

\* The server ends the lifespan, or an exception does.
Shutdown ==
    /\ rdPhase = "ready" /\ rdStop = 0
    /\ rdPhase' \in {"ready", "failed"} /\ rdStop' = 1
    /\ UNCHANGED <<rdStep, rdUp, rdSchema, rdCache, rdThread, rdVerified, rdProbe, rdNow>>

\* Plausible bug: the runtime is stopped before what was started on top of it.
RuntimeFirst == <<"runtime", "metrics", "readiness", "manager", "research", "history">>

\* The finally block.  "manager" is the upstream manager with the prompt
\* facade, "history" the client of the history service; both are always
\* stopped, the others when their started flag is set.
StopOrder == <<"research", "metrics", "readiness", "manager", "runtime", "history">>
Over == Len(StopOrder) + 1
Started == {Starts[i] : i \in 1 .. rdStep - 1}

StopPart ==
    /\ rdStop \in 1 .. Len(StopOrder)
    /\ rdUp' = rdUp \ ({StopOrder[rdStop]} \cap Started)
    /\ rdStop' = rdStop + 1
    /\ rdPhase' = IF rdStop' = Over /\ rdPhase # "failed" THEN "stopped" ELSE rdPhase
    /\ UNCHANGED <<rdStep, rdSchema, rdCache, rdThread, rdVerified, rdProbe, rdNow>>

\* A stop raises, for instance because the task it awaits has failed: the
\* part is stopped or not, and the later steps are skipped.
StopFails ==
    /\ rdStop \in 1 .. Len(StopOrder)
    /\ StopOrder[rdStop] \in Started \cup {"manager", "history"}
    /\ rdUp' \in {rdUp, rdUp \ {StopOrder[rdStop]}}
    /\ rdStop' = Over
    /\ UNCHANGED <<rdPhase, rdStep, rdSchema, rdCache, rdThread, rdVerified, rdProbe, rdNow>>
-----------------------------------------------------------------------------
(* The caches.                                                             *)
\* _run, then refresh_sync: the try-lock lets one thread in.
RefreshBegins(k) ==
    /\ k \in rdUp /\ rdThread[k] = "idle"
    /\ rdThread' = [rdThread EXCEPT ![k] = "reading"]
    /\ UNCHANGED <<rdPhase, rdStep, rdStop, rdUp, rdSchema, rdCache, rdVerified, rdProbe, rdNow>>

\* get_migration_status and validate_schema_metadata pass, and the snapshot
\* is put in place; the metrics snapshot needs no schema check.
SchemaValidated ==
    /\ rdThread["readiness"] = "reading" /\ rdSchema
    /\ rdThread' = [rdThread EXCEPT !["readiness"] = "done"]
    /\ rdVerified' = rdNow
    /\ UNCHANGED <<rdPhase, rdStep, rdStop, rdUp, rdSchema, rdCache, rdProbe, rdNow>>

\* the snapshot of the last success stays
AfterRefreshFailure(k) == rdCache

RefreshFails(k) ==
    /\ rdThread[k] # "idle"
    /\ rdCache' = AfterRefreshFailure(k)
    /\ rdThread' = [rdThread EXCEPT ![k] = "idle"]
    /\ UNCHANGED <<rdPhase, rdStep, rdStop, rdUp, rdSchema, rdVerified, rdProbe, rdNow>>

RefreshSucceeds(k) ==
    /\ rdThread[k] = (IF k = "readiness" THEN "done" ELSE "reading")
    /\ rdCache' = [rdCache EXCEPT ![k] = rdNow]
    /\ rdThread' = [rdThread EXCEPT ![k] = "idle"]
    /\ UNCHANGED <<rdPhase, rdStep, rdStop, rdUp, rdSchema, rdVerified, rdProbe, rdNow>>

\* cached, snapshot
Stale(k) == rdCache[k] = -1 \/ rdNow - rdCache[k] > RdMaxStale
-----------------------------------------------------------------------------
(* GET /ready.                                                             *)
\* what the handler knows when it turns to the database; the status is still
\* "ready" while a shutdown stops the parts, and after a stop has raised
Valid == rdPhase = "ready" /\ ~Stale("readiness")

ProbeBegins(h) ==
    /\ rdProbe[h].step = "idle"
    /\ rdProbe' = [rdProbe EXCEPT ![h] = [step |-> "probing", valid |-> Valid,
                                          ready |-> FALSE, since |-> rdNow]]
    /\ UNCHANGED <<rdPhase, rdStep, rdStop, rdUp, rdSchema, rdCache, rdThread, rdVerified, rdNow>>

\* database_compatible and the two statuses
ReadyAnswer(h, reachable) == reachable /\ rdProbe[h].valid

ProbeEnds(h, reachable) ==
    /\ rdProbe[h].step = "probing"
    /\ rdProbe' = [rdProbe EXCEPT ![h].step = "answered",
                                  ![h].ready = ReadyAnswer(h, reachable),
                                  ![h].since = rdNow]
    /\ UNCHANGED <<rdPhase, rdStep, rdStop, rdUp, rdSchema, rdCache, rdThread, rdVerified, rdNow>>

ProbeForgotten(h) ==
    /\ rdProbe[h].step = "answered"
    /\ rdProbe' = [rdProbe EXCEPT ![h] = NoProbe]
    /\ UNCHANGED <<rdPhase, rdStep, rdStop, rdUp, rdSchema, rdCache, rdThread, rdVerified, rdNow>>
-----------------------------------------------------------------------------
SchemaChanges ==
    /\ rdSchema' = ~rdSchema
    /\ UNCHANGED <<rdPhase, rdStep, rdStop, rdUp, rdCache, rdThread, rdVerified, rdProbe, rdNow>>

\* A schema check has passed and its snapshot is not in place yet.
Stamping ==
    \/ rdThread["readiness"] = "done"
    \/ rdPhase = "starting" /\ Starts[rdStep] \in {"cold_history", "seed"}

\* A probe is cut off by wait_for, and an answer is one of this moment.
RdTick ==
    /\ rdNow < RdMaxTime
    /\ \A h \in RdProbes :
         /\ rdProbe[h].step # "answered"
         /\ rdProbe[h].step = "idle" \/ rdNow - rdProbe[h].since < RdProbeTime
    /\ Stamping => rdNow - rdVerified < RdLag
    /\ rdNow' = rdNow + 1
    /\ UNCHANGED <<rdPhase, rdStep, rdStop, rdUp, rdSchema, rdCache, rdThread, rdVerified, rdProbe>>

RdNext ==
    \/ StartStep \/ StartFails \/ Shutdown \/ StopPart \/ StopFails
    \/ \E k \in Caches : RefreshBegins(k) \/ RefreshFails(k) \/ RefreshSucceeds(k)
    \/ SchemaValidated \/ SchemaChanges \/ RdTick
    \/ \E h \in RdProbes :
         ProbeBegins(h) \/ ProbeForgotten(h) \/ \E b \in BOOLEAN : ProbeEnds(h, b)

RdSpec == RdInit /\ [][RdNext]_rdVars
-----------------------------------------------------------------------------
RdTypeOK ==
    /\ rdPhase \in {"starting", "ready", "failed", "stopped"} /\ rdStop \in 0 .. Over
    /\ rdStep \in 1 .. Len(Starts) + 1 /\ rdUp \subseteq Parts /\ rdSchema \in BOOLEAN
    /\ rdCache \in [Caches -> -1 .. RdMaxTime]
    /\ rdThread \in [Caches -> {"idle", "reading", "done"}]
    /\ rdVerified \in -1 .. RdMaxTime
    /\ rdProbe \in [RdProbes -> [step : {"idle", "probing", "answered"}, valid : BOOLEAN,
                                 ready : BOOLEAN, since : 0 .. RdMaxTime]]
    /\ rdNow \in 0 .. RdMaxTime

\* "ready" is answered only by a process that has started completely and
\* found the schema compatible not long ago: at most the staleness limit, the
\* time of the probe the handler waits for after it has looked at the cache,
\* and the time a refresh needs from its check to its stamp.
ReadyWasVerified ==
    \A h \in RdProbes :
        (rdProbe[h].step = "answered" /\ rdProbe[h].ready) =>
            /\ rdStep = Len(Starts) + 1
            /\ rdVerified # -1 /\ rdNow - rdVerified <= RdMaxStale + RdProbeTime + RdLag

\* What runs has what it was started on: the caches and the research worker
\* use the runtime and the parts started before them, which run as long as
\* they do, whichever step of the start or of the finally block raises.
BaseRuns ==
    \A i, j \in 1 .. Len(Starts) :
        (i < j /\ Starts[i] \in Parts /\ Starts[j] \in rdUp) => Starts[i] \in rdUp

\* The status "stopped" is true: no part that was started runs then.  After a
\* stop that raised the status stays what it was.
StoppedIsTrue == rdPhase = "stopped" => rdUp = {}

\* The readiness answer and the reported status can be relied on.
ReadinessSound == ReadyWasVerified /\ BaseRuns /\ StoppedIsTrue
=============================================================================
