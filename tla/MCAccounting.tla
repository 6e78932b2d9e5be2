---------------------------- MODULE MCAccounting ----------------------------
(***************************************************************************)
(* Records that must not be lost or counted twice, for TLC: the outbox and *)
(* its publishers, the usage life cycle of a task, the MCP traffic log and *)
(* the cold history of old events.  A behaviour moves only the component   *)
(* that focus names.                                                       *)
(***************************************************************************)
EXTENDS Outbox, UsageLifecycle, McpTraffic, ColdHistory, TLC

VARIABLE focus

AccountingInit ==
    /\ focus \in {"outbox", "usage", "traffic", "history"}
    /\ Init /\ UlInit /\ TrInit /\ ChInit

AccountingNext ==
    /\ UNCHANGED focus
    /\ \/ focus = "outbox" /\ Next /\ UNCHANGED <<ulVars, trVars, chVars>>
       \/ focus = "usage" /\ UlNext /\ UNCHANGED <<vars, trVars, chVars>>
       \/ focus = "traffic" /\ TrNext /\ UNCHANGED <<vars, ulVars, chVars>>
       \/ focus = "history" /\ ChNext /\ UNCHANGED <<vars, ulVars, trVars>>

AccountingSpec == AccountingInit /\ [][AccountingNext]_<<focus, vars, ulVars, trVars, chVars>>

\* The publishers are also the runs, flushers and requests of the others, and
\* the events the calls and the variants of a request.
Interchangeable == Permutations(Tokens) \cup Permutations(Publishers) \cup Permutations(Events)
-----------------------------------------------------------------------------
\* The rows of every component stay within the columns' types and value sets.
AccountingTypesOK == TypeOK /\ UlTypeOK /\ TrTypeOK /\ ChTypeOK
=============================================================================
