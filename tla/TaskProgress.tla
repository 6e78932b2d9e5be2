---------------------------- MODULE TaskProgress ----------------------------
(***************************************************************************)
(* The Task Progress view of a room (task_progress.py, task_progress_app.py*)
(* and the task_progress_* tools of routers/mcp.py).  project_task_progress*)
(* reads the work items, the commands, the approvals and the sessions of a *)
(* room with one query each, so commits of other handlers fall between the *)
(* queries, and numbers the snapshot by the latest time stamp it saw.  The *)
(* widget in the chat polls, cancels and is handed results by its host, in *)
(* any order, and keeps the snapshot with the highest number.  A handler   *)
(* stamps a row by its process's clock (updated_at = utcnow()) and commits *)
(* later, without a lock, so a commit may carry any stamp, one older than  *)
(* the row's included.  Leases, file changes, permits and receipts only add*)
(* rows to the count and are left out, as are titles, acceptance checks and*)
(* evidence.                                                               *)
(***************************************************************************)
EXTENDS Naturals, Sequences, FiniteSetsExt

CONSTANTS
    TpItems,        \* work items of the room
    Callers,        \* who calls: "refresh" and "cancel" (the widget), "host"
    MaxTpWrites,    \* bound on commits
    MaxTpStamp      \* bound on time stamps

ASSUME TpAssumption ==
    /\ MaxTpWrites \in Nat /\ MaxTpStamp \in Nat
    /\ Callers \subseteq {"refresh", "cancel", "host"}
    /\ IsFiniteSet(TpItems) /\ TpItems \cap {"command", "approval", "session"} = {}

VARIABLES
    tpRows,         \* the room's rows: work items, one command, approval, session
    tpCommits,      \* commits so far
    tpReader,       \* tool calls of the widget and of its host
    tpShown,        \* what the widget shows
    tpSeq,          \* its sequence number
    tpRefused       \* history: the commits before the snapshot that arrived last was
                    \* begun, if it showed something else and was refused

tpVars == <<tpRows, tpCommits, tpReader, tpShown, tpSeq, tpRefused>>

\* Row names: an item by itself, the other tables with one row each
Others == {"command", "approval", "session"}
Rows == TpItems \cup Others
Tables == <<TpItems, {"command"}, {"approval"}, {"session"}>>

ItemStatuses == {"open", "in_progress", "review", "blocked", "completed", "failed", "cancelled"}
RowStatuses(r) ==
    CASE r \in TpItems   -> ItemStatuses
      [] r = "command"   -> {"delivered", "unknown", "completed"}   \* unknown: outcome_unknown
      [] r = "approval"  -> {"pending", "approved"}
      [] r = "session"   -> {"running", "exited"}
AbsentRow == [status |-> "absent", at |-> 0]
Nothing == [r \in Rows |-> AbsentRow]
Resting == [step |-> 0, rows |-> Nothing, begun |-> 0, again |-> FALSE]

TpInit ==
    /\ tpRows = Nothing
    /\ tpCommits = 0
    /\ tpReader = [c \in Callers |-> Resting]
    /\ tpShown = Nothing
    /\ tpSeq = 0
    /\ tpRefused = {}
-----------------------------------------------------------------------------
(* The projection of a set of rows.                                        *)
StatusesOf(rows) == {rows[i].status : i \in TpItems} \ {"absent"}
Unsettled(rows) == rows["command"].status = "unknown"

\* _run_status, rule by rule
RunStatus(rows) ==
    LET s == StatusesOf(rows) IN
    CASE Unsettled(rows)                                          -> "unknown"
      [] ~Unsettled(rows) /\ s = {"completed"}                    -> "succeeded"
      [] ~Unsettled(rows) /\ s = {"cancelled"}                    -> "cancelled"
      [] ~Unsettled(rows) /\ "blocked" \in s                      -> "blocked"
      [] OTHER ->
           IF rows["approval"].status = "pending" THEN "waiting"
           ELSE IF "failed" \in s /\ s \cap {"open", "in_progress", "review"} = {} THEN "failed"
           ELSE IF "review" \in s /\ s \cap {"open", "in_progress"} = {} THEN "waiting"
           ELSE IF s \cap {"in_progress", "review"} # {} THEN "running"
           ELSE IF "open" \notin s /\ rows["command"].status = "delivered" THEN "running"
           ELSE "queued"

\* _current_stage: the status of the stage that is shown as the current one
CurrentStage(rows) ==
    LET s == StatusesOf(rows) IN
    CASE "in_progress" \in s -> "in_progress"
      [] "in_progress" \notin s /\ "blocked" \in s -> "blocked"
      [] s \cap {"in_progress", "blocked"} = {} /\ "review" \in s -> "review"
      [] s \cap {"in_progress", "blocked", "review"} = {} /\ "open" \in s -> "open"
      [] s \cap {"in_progress", "blocked", "review", "open"} = {} /\ "failed" \in s -> "failed"
      [] OTHER -> "none"

\* Sources of the blockers that are listed
Blockers(rows) ==
    {i \in TpItems : rows[i].status = "blocked"}
        \cup {"approval" : x \in {y \in {1} : rows["approval"].status = "pending"}}
        \cup {"command" : x \in {y \in {1} : Unsettled(rows)}}

Resolved(rows) == {i \in TpItems : rows[i].status \in {"completed", "failed", "cancelled"}}
Stages(rows) == {i \in TpItems : rows[i].status # "absent"}

\* _latest_timestamp and _sequence: microseconds, with the number of rows
\* (at most 999) in the last three digits
LatestTimestamp(rows) == Max({rows[r].at : r \in Rows})
EntityCount(rows) == Cardinality({r \in Rows : rows[r].status # "absent"})
SequenceOf(rows) == LatestTimestamp(rows) * 1000 + Min({EntityCount(rows), 999})
-----------------------------------------------------------------------------
\* A row is committed with the stamp it was given when it was changed.
TpCommit(r, st, at) ==
    /\ tpCommits < MaxTpWrites
    /\ tpCommits' = tpCommits + 1
    /\ tpRows' = [tpRows EXCEPT ![r] = [status |-> st, at |-> at]]

\* Any handler of the room commits a change of one row.
TpWrite(r, st, at) ==
    /\ st \in RowStatuses(r) /\ st # tpRows[r].status
    /\ TpCommit(r, st, at)
    /\ UNCHANGED <<tpReader, tpShown, tpSeq, tpRefused>>

Final == {"succeeded", "failed", "cancelled", "rolled_back"}
Shown == tpShown # Nothing

\* refresh polls until a final status is shown; Cancel is offered for a
\* running session; the host calls the tools when the model does.
MayCall(c) ==
    CASE c = "refresh" -> ~(Shown /\ RunStatus(tpShown) \in Final)
      [] c = "cancel"  -> Shown /\ tpShown["session"].status = "running"
                                /\ RunStatus(tpShown) \notin Final
      [] c = "host"    -> TRUE

TpCall(c) ==
    /\ tpReader[c].step = 0 /\ MayCall(c)
    /\ tpReader' = [tpReader EXCEPT ![c] = [Resting EXCEPT !.step = 1, !.begun = tpCommits]]
    /\ UNCHANGED <<tpRows, tpCommits, tpShown, tpSeq, tpRefused>>

\* The next query of project_task_progress
TpQuery(c) ==
    LET t == tpReader[c] IN
    /\ t.step \in 1 .. Len(Tables)
    /\ tpReader' = [tpReader EXCEPT
           ![c].rows = [r \in Rows |-> IF r \in Tables[t.step] THEN tpRows[r] ELSE t.rows[r]],
           ![c].step = t.step + 1]
    /\ UNCHANGED <<tpRows, tpCommits, tpShown, tpSeq, tpRefused>>

Projected(c) == tpReader[c].step = Len(Tables) + 1

\* task_progress_cancel: the running sessions of the snapshot are terminated
\* and the room is projected again.
TpCancel ==
    /\ "cancel" \in Callers
    /\ Projected("cancel") /\ ~tpReader["cancel"].again
    /\ tpReader["cancel"].rows["session"].status = "running"
    /\ \/ \E at \in 1 .. MaxTpStamp : TpCommit("session", "exited", at)
       \/ tpRows["session"].status = "exited" /\ UNCHANGED <<tpCommits, tpRows>>
    /\ tpReader' = [tpReader EXCEPT !["cancel"] =
                       [Resting EXCEPT !.step = 1, !.begun = tpCommits', !.again = TRUE]]
    /\ UNCHANGED <<tpShown, tpSeq, tpRefused>>

\* The answer or the error is lost, times out in the widget, or nothing is
\* left to cancel (409).
TpLost(c) ==
    /\ tpReader[c].step # 0
    /\ tpReader' = [tpReader EXCEPT ![c] = Resting]
    /\ UNCHANGED <<tpRows, tpCommits, tpShown, tpSeq, tpRefused>>

\* Plausible bug: only a higher number is accepted.
AcceptsHigher(n) == n > tpSeq

\* acceptSnapshot
Accepts(n) == n >= tpSeq

TpArrives(c) ==
    LET s == [rows |-> tpReader[c].rows, begun |-> tpReader[c].begun]
        n == SequenceOf(s.rows) IN
    /\ Projected(c) /\ (c # "cancel" \/ tpReader[c].again)
    /\ IF Accepts(n) THEN tpShown' = s.rows /\ tpSeq' = n ELSE UNCHANGED <<tpShown, tpSeq>>
    /\ tpRefused' = IF Accepts(n) \/ s.rows = tpShown THEN {} ELSE {s.begun}
    /\ tpReader' = [tpReader EXCEPT ![c] = Resting]
    /\ UNCHANGED <<tpRows, tpCommits>>

TpNext ==
    \/ \E r \in Rows, at \in 1 .. MaxTpStamp : \E st \in RowStatuses(r) : TpWrite(r, st, at)
    \/ \E c \in Callers : TpCall(c) \/ TpQuery(c) \/ TpLost(c) \/ TpArrives(c)
    \/ TpCancel

TpSpec == TpInit /\ [][TpNext]_tpVars
-----------------------------------------------------------------------------
TpRowsOK(rows) ==
    /\ DOMAIN rows = Rows
    /\ \A r \in Rows : rows[r].status \in RowStatuses(r) \cup {"absent"} /\ rows[r].at \in Nat

TpTypeOK ==
    /\ TpRowsOK(tpRows) /\ TpRowsOK(tpShown)
    /\ tpCommits \in 0 .. MaxTpWrites
    /\ \A c \in Callers : TpRowsOK(tpReader[c].rows) /\ tpReader[c].step \in 0 .. Len(Tables) + 1
    /\ tpSeq \in Nat /\ tpRefused \subseteq 0 .. MaxTpWrites

\* The widget does not refuse the truth: a snapshot begun after the last
\* commit is shown when it arrives, although an earlier one that was torn
\* between two queries may carry the same sequence number, and although
\* stamps, commits and arrivals each have their own order.  Only a row whose
\* own stamp went back since it was shown lets the widget keep what it has.
CurrentSnapshotShown ==
    tpCommits \in tpRefused => \E r \in Rows : tpRows[r].at < tpShown[r].at

\* Polling ends on a final status, so a final status must not hide work: no
\* stage is open, running, in review or blocked, no outcome is unknown, and a
\* success shows every stage resolved and no current stage.
FinalStatusIsHonest ==
    \A rows \in {tpRows, tpShown} :
        /\ RunStatus(rows) \in Final =>
               /\ StatusesOf(rows) \subseteq {"completed", "failed", "cancelled"}
               /\ Blockers(rows) \subseteq {"approval"}
        /\ RunStatus(rows) = "succeeded" =>
               CurrentStage(rows) = "none" /\ Resolved(rows) = Stages(rows) /\ Stages(rows) # {}
        /\ RunStatus(rows) = "unknown" <=> "command" \in Blockers(rows)

\* What the widget shows is current when it can be, and final when it says so.
ProgressSound == CurrentSnapshotShown /\ FinalStatusIsHonest
=============================================================================
