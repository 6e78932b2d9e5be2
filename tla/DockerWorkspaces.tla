-------------------------- MODULE DockerWorkspaces --------------------------
(***************************************************************************)
(* Docker workspaces: the rows the gateway keeps (routers/docker.py, the   *)
(* docker_workspace_* tools of routers/mcp.py) beside the containers the   *)
(* docker command line works on (adapters/docker.py, with docker enabled). *)
(* Every handler reads the row, runs docker, and then commits the row; the *)
(* handlers of two replicas interleave between these steps, and docker may *)
(* fail, or outlive the time limit of its subprocess.                      *)
(***************************************************************************)
EXTENDS Naturals

CONSTANTS Spaces, DkTasks, NoSpace

VARIABLES
    dkRow,          \* DockerWorkspace.status, "none" before and "deleted" after
    dkBox,          \* the container
    dkTask,         \* handlers: operation, workspace, source of a clone, step
    dkBlurred       \* workspaces with overlapping or interrupted operations

dkVars == <<dkRow, dkBox, dkTask, dkBlurred>>

DkOps == {"create", "clone", "start", "stop", "rename", "delete"}
IdleTask == [op |-> "none", ws |-> NoSpace, src |-> NoSpace, step |-> "idle"]

DkInit ==
    /\ dkRow = [w \in Spaces |-> "none"]
    /\ dkBox = [w \in Spaces |-> "none"]
    /\ dkTask = [h \in DkTasks |-> IdleTask]
    /\ dkBlurred = {}

Stands(w) == dkRow[w] \in {"running", "stopped"}
AtWork(w) == {h \in DkTasks : dkTask[h].step # "idle" /\ dkTask[h].ws = w}

\* The handler has found the row of the workspace it works on (the source,
\* for a clone), or has drawn a new id.
TakeUp(h, op, w, s) ==
    /\ dkTask[h].step = "idle"
    /\ \/ op = "create" /\ s = NoSpace /\ dkRow[w] = "none" /\ AtWork(w) = {} /\ dkBox[w] = "none"
       \/ op = "clone" /\ s # NoSpace /\ Stands(s) /\ dkRow[w] = "none" /\ AtWork(w) = {} /\ dkBox[w] = "none"
       \/ op \in DkOps \ {"create", "clone"} /\ s = NoSpace /\ Stands(w)
    /\ dkTask' = [dkTask EXCEPT ![h] = [op |-> op, ws |-> w, src |-> s, step |-> "docker"]]
    /\ dkBlurred' = IF AtWork(w) = {} THEN dkBlurred ELSE dkBlurred \cup {w}
    /\ UNCHANGED <<dkRow, dkBox>>

Exists(w) == dkBox[w] \in {"running", "stopped"}

\* DockerAdapter: what docker needs, and what it leaves behind
Possible(t) ==
    CASE t.op = "create" -> TRUE
      [] t.op = "clone"  -> Exists(t.src)
      [] t.op \in {"start", "stop", "rename"} -> Exists(t.ws)
      [] t.op = "delete" -> TRUE              \* "No such container" is no failure

Effect(t) ==
    CASE t.op \in {"create", "clone", "start"} -> [dkBox EXCEPT ![t.ws] = "running"]
      [] t.op = "stop"   -> [dkBox EXCEPT ![t.ws] = "stopped"]
      [] t.op = "rename" -> dkBox
      [] t.op = "delete" -> [dkBox EXCEPT ![t.ws] = "gone"]

Docker(h) ==
    /\ dkTask[h].step = "docker" /\ Possible(dkTask[h])
    /\ dkBox' = Effect(dkTask[h])
    /\ dkTask' = [dkTask EXCEPT ![h].step = "commit"]
    /\ UNCHANGED <<dkRow, dkBlurred>>

\* Plausible bug: the handler goes on although docker failed.
AfterFailedDockerGoesOn(h) == [dkTask EXCEPT ![h].step = "commit"]

\* a non-zero exit code raises HTTPException
AfterFailedDocker(h) == [dkTask EXCEPT ![h] = IdleTask]

DockerFails(h) ==
    /\ dkTask[h].step = "docker"
    /\ dkTask' = AfterFailedDocker(h)
    /\ UNCHANGED <<dkRow, dkBox, dkBlurred>>

\* The subprocess outlives its timeout, or the process dies before the
\* commit: docker has done its work and the row does not know it.
Interrupted(h) ==
    /\ dkTask[h].step # "idle"
    /\ dkBox' = IF dkTask[h].step = "docker" /\ Possible(dkTask[h])
                THEN Effect(dkTask[h]) ELSE dkBox
    /\ dkBlurred' = dkBlurred \cup {dkTask[h].ws}
    /\ dkTask' = [dkTask EXCEPT ![h] = IdleTask]
    /\ UNCHANGED dkRow

\* DockerResult.status of create, clone, start and stop
RowStatus(op) == IF op = "stop" THEN "stopped" ELSE "running"

\* The row and its event, one commit.  An UPDATE or DELETE of a row another
\* replica has deleted matches nothing.
Commit(h) ==
    LET t == dkTask[h] IN
    /\ t.step = "commit"
    /\ dkRow' = CASE t.op \in {"create", "clone"} -> [dkRow EXCEPT ![t.ws] = RowStatus(t.op)]
                  [] t.op \in {"start", "stop"} /\ Stands(t.ws) ->
                         [dkRow EXCEPT ![t.ws] = RowStatus(t.op)]
                  [] t.op = "delete" -> [dkRow EXCEPT ![t.ws] = "deleted"]
                  [] OTHER -> dkRow
    /\ dkTask' = [dkTask EXCEPT ![h] = IdleTask]
    /\ UNCHANGED <<dkBox, dkBlurred>>

DkNext ==
    \E h \in DkTasks :
        \/ \E op \in DkOps, w \in Spaces, s \in Spaces \cup {NoSpace} : TakeUp(h, op, w, s)
        \/ Docker(h) \/ DockerFails(h) \/ Interrupted(h) \/ Commit(h)

DkSpec == DkInit /\ [][DkNext]_dkVars
-----------------------------------------------------------------------------
DkTypeOK ==
    /\ dkRow \in [Spaces -> {"none", "running", "stopped", "deleted"}]
    /\ dkBox \in [Spaces -> {"none", "running", "stopped", "gone"}]
    /\ dkTask \in [DkTasks -> [op : DkOps \cup {"none"}, ws : Spaces \cup {NoSpace},
                               src : Spaces \cup {NoSpace},
                               step : {"idle", "docker", "commit"}]]
    /\ dkBlurred \subseteq Spaces

\* A workspace whose row is gone leaves no container behind, and a row that
\* is listed once had its container, whatever handlers of other replicas did
\* to the same workspace and wherever docker failed or a process died.
NoOrphanContainer ==
    \A w \in Spaces :
        /\ dkRow[w] = "deleted" => dkBox[w] = "gone"
        /\ Stands(w) => dkBox[w] # "none"

\* The listed status is the state of the container when no handler is at
\* work on it, unless handlers overlapped or one was interrupted.
StatusFollowsContainer ==
    \A w \in Spaces :
        (Stands(w) /\ AtWork(w) = {} /\ w \notin dkBlurred) => dkRow[w] = dkBox[w]

\* Rows and containers agree, as far as docker and the process let them.
WorkspacesSound == NoOrphanContainer /\ StatusFollowsContainer
=============================================================================
