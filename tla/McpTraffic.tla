----------------------------- MODULE McpTraffic -----------------------------
(***************************************************************************)
(* The traffic outbox of MCP tool calls (mcp_traffic.py): record_exchange  *)
(* puts the estimate of a finished call on its own row, and the flusher of *)
(* each replica (runtime.py, _drain_mcp_traffic) delivers pending rows to  *)
(* LUP.  flush_pending locks the rows it takes (FOR UPDATE SKIP LOCKED),   *)
(* keeps the locks while a batch is delivered over the network, and        *)
(* commits all results at once.  LUP is external and stores an estimate    *)
(* once under the event id that is derived from the call.                  *)
(***************************************************************************)
EXTENDS Naturals, FiniteSets

CONSTANTS
    TrCalls,        \* AgentToolCall rows
    TrFlushers,     \* replicas
    TrLimit,        \* gateway_lup_mcp_traffic_flush_limit
    TrAttempts,     \* gateway_lup_mcp_traffic_queue_max_attempts
    MaxTrStops      \* bound on the replicas lost in the middle of a batch

ASSUME TrAssumption == /\ TrLimit \in Nat \ {0} /\ TrAttempts \in Nat \ {0}
                       /\ MaxTrStops \in Nat

VARIABLES
    trRow,          \* delivery state of the calls
    trWaits,        \* calls whose next attempt is not due yet
    trStored,       \* how often LUP counted the estimate of a call
    trBatch,        \* per flusher: the rows it holds and their results
    trStops         \* batches lost so far

trVars == <<trRow, trWaits, trStored, trBatch, trStops>>

TrRow == [status : {"none", "pending", "delivered", "dead_letter"},
          attempts : 0 .. TrAttempts]
Results == {"none", "ok", "failed"}

TrInit ==
    /\ trRow = [c \in TrCalls |-> [status |-> "none", attempts |-> 0]]
    /\ trWaits = {}
    /\ trStored = [c \in TrCalls |-> 0]
    /\ trBatch = [f \in TrFlushers |-> [c \in {} |-> "none"]]
    /\ trStops = 0

Held == UNION {DOMAIN trBatch[f] : f \in TrFlushers}
Due == {c \in TrCalls : trRow[c].status = "pending"} \ trWaits

\* record_exchange, once per call when its answer has been measured
RecordExchange(c) ==
    /\ trRow[c].status = "none"
    /\ trRow' = [trRow EXCEPT ![c].status = "pending"]
    /\ UNCHANGED <<trWaits, trStored, trBatch, trStops>>

\* Plausible bug: rows another flusher holds are taken as well.
TakeableHeld == Due

\* SKIP LOCKED
Takeable == Due \ Held

FlushRead(f) ==
    /\ DOMAIN trBatch[f] = {}
    /\ \E B \in SUBSET Takeable :
         /\ B # {} /\ Cardinality(B) <= TrLimit
         /\ Cardinality(B) < TrLimit => B = Takeable
         /\ trBatch' = [trBatch EXCEPT ![f] = [c \in B |-> "none"]]
    /\ UNCHANGED <<trRow, trWaits, trStored, trStops>>

\* One delivery of the batch ends.  LUP may have stored the estimate although
\* the flusher sees an error.
Deliver(f, c) ==
    /\ c \in DOMAIN trBatch[f] /\ trBatch[f][c] = "none"
    /\ \E result \in {"ok", "failed"}, reached \in BOOLEAN :
         /\ result = "ok" => reached
         /\ trBatch' = [trBatch EXCEPT ![f][c] = result]
         /\ trStored' = [trStored EXCEPT ![c] = IF reached THEN 1 ELSE @]
    /\ UNCHANGED <<trRow, trWaits, trStops>>

\* The attempt is counted; the last one makes a dead letter of the row.
AfterFailure(row) ==
    [status |-> IF row.attempts + 1 >= TrAttempts THEN "dead_letter" ELSE "pending",
     attempts |-> row.attempts + 1]

AfterResult(row, result) ==
    IF result = "ok"
    THEN [status |-> "delivered", attempts |-> row.attempts + 1]
    ELSE AfterFailure(row)

\* All results are committed together and the locks released.
FlushCommit(f) ==
    /\ DOMAIN trBatch[f] # {}
    /\ \A c \in DOMAIN trBatch[f] : trBatch[f][c] # "none"
    /\ trRow' = [c \in TrCalls |->
           IF c \in DOMAIN trBatch[f] THEN AfterResult(trRow[c], trBatch[f][c])
           ELSE trRow[c]]
    /\ trWaits' = trWaits \cup {c \in DOMAIN trBatch[f] : trRow'[c].status = "pending"}
    /\ trBatch' = [trBatch EXCEPT ![f] = [c \in {} |-> "none"]]
    /\ UNCHANGED <<trStored, trStops>>

\* The replica stops or its transaction fails: nothing of the batch is kept.
FlushLost(f) ==
    /\ DOMAIN trBatch[f] # {} /\ trStops < MaxTrStops
    /\ trStops' = trStops + 1
    /\ trBatch' = [trBatch EXCEPT ![f] = [c \in {} |-> "none"]]
    /\ UNCHANGED <<trRow, trWaits, trStored>>

\* The retry delay of a row is over.
DelayEnds(c) ==
    /\ c \in trWaits
    /\ trWaits' = trWaits \ {c}
    /\ UNCHANGED <<trRow, trStored, trBatch, trStops>>

--------------------------------------------------------------------------
TrNext ==
    \/ \E c \in TrCalls : RecordExchange(c) \/ DelayEnds(c)
    \/ \E f \in TrFlushers :
         \/ FlushRead(f) \/ FlushCommit(f) \/ FlushLost(f)
         \/ \E c \in TrCalls : Deliver(f, c)

TrSpec == TrInit /\ [][TrNext]_trVars

\* Each flusher runs for ever, a delivery ends by the client's timeout at the
\* latest, and a delay passes.
TrFairness ==
    /\ \A c \in TrCalls : WF_trVars(DelayEnds(c))
    /\ \A f \in TrFlushers :
         /\ WF_trVars(FlushRead(f)) /\ WF_trVars(FlushCommit(f))
         /\ \A c \in TrCalls : WF_trVars(Deliver(f, c))

--------------------------------------------------------------------------
TrTypeOK ==
    /\ trRow \in [TrCalls -> TrRow]
    /\ trWaits \subseteq TrCalls
    /\ trStored \in [TrCalls -> 0 .. 1]
    /\ trStops \in 0 .. MaxTrStops
    /\ \A f \in TrFlushers : /\ DOMAIN trBatch[f] \subseteq TrCalls
                             /\ \A c \in DOMAIN trBatch[f] : trBatch[f][c] \in Results

(* Flushers of several replicas, restarts in the middle of a batch and     *)
(* answers that get lost: a call that counts as delivered was stored by    *)
(* LUP, and an attempt is never counted twice, so a call becomes a dead    *)
(* letter only after its full number of attempts.                          *)
DeliveredWasStored ==
    \A c \in TrCalls :
        /\ trRow[c].status = "delivered" => trStored[c] = 1
        /\ trRow[c].status = "dead_letter" => trRow[c].attempts = TrAttempts

(* A row is worked on by one flusher at a time, although its lock has to   *)
(* last through the network calls of a whole batch.                        *)
OneFlusherPerCall ==
    \A f, g \in TrFlushers : f # g => DOMAIN trBatch[f] \cap DOMAIN trBatch[g] = {}

(* Every estimate leaves the queue: delivered, or a dead letter.           *)
TrafficSettles ==
    \A c \in TrCalls : trRow[c].status = "pending"
                          ~> trRow[c].status \in {"delivered", "dead_letter"}

(* The queue keeps its promises across replicas, restarts and lost answers.*)
TrafficSound == DeliveredWasStored /\ OneFlusherPerCall
=============================================================================
