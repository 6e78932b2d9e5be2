----------------------------- MODULE MCSettles -----------------------------
(***************************************************************************)
(* What must eventually happen, for TLC: outbox events are settled,        *)
(* recovery loops taken up, requests to thin clients answered and traffic  *)
(* estimates delivered.  A behaviour moves only the component that focus   *)
(* names, so the fairness of each component is stated for its focus.       *)
(***************************************************************************)
EXTENDS Outbox, AutonomyRecovery, ThinClients, McpTraffic

VARIABLE focus

SettlesInit ==
    /\ focus \in {"outbox", "recovery", "thin clients", "traffic"}
    /\ Init /\ RecInit /\ TcInit /\ TrInit

SettlesNext ==
    /\ UNCHANGED focus
    /\ \/ focus = "outbox" /\ Next /\ UNCHANGED <<recVars, tcVars, trVars>>
       \/ focus = "recovery" /\ RecNext /\ UNCHANGED <<vars, tcVars, trVars>>
       \/ focus = "thin clients" /\ TcNext /\ UNCHANGED <<vars, recVars, trVars>>
       \/ focus = "traffic" /\ TrNext /\ UNCHANGED <<vars, recVars, tcVars>>

\* Fairness of Outbox.
OutboxFairness ==
    /\ \A p \in Publishers : WF_vars(focus = "outbox" /\ RunOnce(p))
    /\ \A e \in Events : /\ WF_vars(focus = "outbox" /\ LockLapse(e))
                         /\ WF_vars(focus = "outbox" /\ BackoffOver(e))
    /\ \A o \in Operators : WF_vars(focus = "outbox" /\ (CancelCommit(o) \/ ReplayCommit(o)))

\* RecFairness of AutonomyRecovery.
RecoveryFairness ==
    /\ \A s \in RecWorkers : WF_recVars(focus = "recovery" /\ RecWorker(s))
    /\ \A l \in RecLoops : WF_recVars(focus = "recovery" /\ BackoffEnds(l))

\* TcFairness of ThinClients.
RequestFairness ==
    \A r \in TcReqs :
        WF_tcVars(/\ focus = "thin clients"
                  /\ Send(r) \/ SendReturns(r) \/ SendFails(r) \/ RequestTimeout(r) \/ Settle(r))

\* TrFairness of McpTraffic.
TrafficFairness ==
    /\ \A c \in TrCalls : WF_trVars(focus = "traffic" /\ DelayEnds(c))
    /\ \A f \in TrFlushers :
         /\ WF_trVars(focus = "traffic" /\ FlushRead(f))
         /\ WF_trVars(focus = "traffic" /\ FlushCommit(f))
         /\ \A c \in TrCalls : WF_trVars(focus = "traffic" /\ Deliver(f, c))

SettlesSpec ==
    /\ SettlesInit /\ [][SettlesNext]_<<focus, vars, recVars, tcVars, trVars>>
    /\ OutboxFairness /\ RecoveryFairness /\ RequestFairness /\ TrafficFairness
-----------------------------------------------------------------------------
\* The workers and timers besides the publishers leave nothing behind: a
\* planned recovery loop is taken up after a crash, a request to a thin client
\* comes back to its caller whatever happens to the socket, and an estimate
\* is delivered or becomes a dead letter.
WorkersSettle == PlannedLoopTakenUp /\ RequestSettles /\ TrafficSettles
=============================================================================
