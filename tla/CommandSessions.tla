-------------------------- MODULE CommandSessions --------------------------
(***************************************************************************)
(* One monitored command (MonitoringService): its CommandSession row, the  *)
(* spooled output, the process, and who writes them without locks: the     *)
(* worker thread of a local command or the control connections of a thin   *)
(* client, a caller that terminates it, and tool calls that report tails.  *)
(* Each loads the row, works, and commits; the database may refuse a       *)
(* commit whose file write is done.                                        *)
(***************************************************************************)
EXTENDS Naturals, Sequences

CONSTANTS
    CsActors,       \* threads and requests
    MaxLines        \* bound on the output

ASSUME CommandSessionsAssumption == MaxLines \in Nat

VARIABLES
    csOrigin,       \* "server" or "thin_client"; never changes
    csRow,          \* the CommandSession row; status none before it exists
    csFile,         \* line numbers in the spool file
    csProc,         \* the process
    csWorker,       \* the worker of a local command; "none" for a thin client's
    csTx,
    csOver,         \* history: actors whose append overlapped with another
    csSure          \* history: file positions appended alone and committed

csVars == <<csOrigin, csRow, csFile, csProc, csWorker, csTx, csOver, csSure>>
lineVars == <<csFile, csOver, csSure>>

Ended == {"completed", "failed", "terminated"}
Terminal == Ended \cup {"lost"}
SessionStatus == {"none", "running", "disconnecting"} \cup Terminal
\* told is the terminal_tail_reported of the row's meta.
SessionRow == [status : SessionStatus, lines : 0..MaxLines, told : {"no", "yes"}]
CsIdle == [op |-> "idle"]

CsTypeOK ==
    /\ csOrigin \in {"server", "thin_client"} /\ csRow \in SessionRow
    /\ csFile \in Seq(1..MaxLines) /\ csProc \in {"none", "running", "exited"}
    /\ csWorker \in {"none", "loop", "error", "last", "done"}
    /\ csOver \subseteq CsActors /\ csSure \subseteq 1..MaxLines

CsInit ==
    /\ csOrigin \in {"server", "thin_client"}
    /\ csRow = [status |-> "none", lines |-> 0, told |-> "no"]
    /\ csFile = <<>> /\ csProc = "none" /\ csWorker = "none"
    /\ csTx = [a \in CsActors |-> CsIdle] /\ csOver = {} /\ csSure = {}

CsBegin(a, t) == csTx[a] = CsIdle /\ csTx' = [csTx EXCEPT ![a] = t]
CsEnd(a) == csTx' = [csTx EXCEPT ![a] = CsIdle]

AppendOps == {"append", "written"}

\* A local command has one worker thread; the connections of a thin client
\* handle their messages in threads of their own.
HandlerFree == csOrigin = "server" => \A b \in CsActors : csTx[b].op \notin AppendOps \cup {"finish"}

\* create_session is committed before the process exists.
CreateSession ==
    /\ csRow.status = "none"
    /\ csRow' = [csRow EXCEPT !.status = "running"]
    /\ UNCHANGED <<csOrigin, csProc, csWorker, csTx, lineVars>>

\* Popen, the commit of the pid, the entry in _processes and the worker; an
\* OSError, which is told like an error of the worker; or no pid is committed
\* and the process runs without a worker.
StartProcess ==
    /\ csRow.status # "none" /\ csProc = "none"
    /\ \/ csOrigin = "thin_client" /\ csProc' \in {"running", "exited"} /\ UNCHANGED csWorker
       \/ csOrigin = "server" /\ csProc' = "running" /\ csWorker' \in {"loop", "done"}
       \/ csOrigin = "server" /\ csProc' = "exited" /\ csWorker' = "error"
    /\ UNCHANGED <<csOrigin, csRow, csTx, lineVars>>

ProcessExits ==
    /\ csProc = "running"
    /\ csProc' = "exited"
    /\ UNCHANGED <<csOrigin, csRow, csWorker, csTx, lineVars>>

-----------------------------------------------------------------------------
\* append_output reads line_count, appends to the file and commits the count.
\* The worker appends what it reads, and the error that ended its loop.
AppendRead(a) ==
    /\ csProc # "none" /\ Len(csFile) < MaxLines /\ HandlerFree
    /\ csOrigin = "server" => csWorker \in {"loop", "error"}
    /\ CsBegin(a, [op |-> "append", line |-> csRow.lines + 1])
    /\ LET others == {b \in CsActors : csTx[b].op \in AppendOps}
       IN  csOver' = IF others = {} THEN csOver \ {a} ELSE csOver \cup others \cup {a}
    /\ UNCHANGED <<csOrigin, csRow, csFile, csProc, csWorker, csSure>>

AppendWrite(a) ==
    /\ csTx[a].op = "append" /\ Len(csFile) < MaxLines
    /\ csFile' = Append(csFile, csTx[a].line)
    /\ csTx' = [csTx EXCEPT ![a] = [op |-> "written", line |-> csTx[a].line, at |-> Len(csFile) + 1]]
    /\ UNCHANGED <<csOrigin, csRow, csProc, csWorker, csOver, csSure>>

Appended(a) ==
    /\ csTx[a].op = "written" /\ CsEnd(a)
    /\ csSure' = IF a \in csOver THEN csSure ELSE csSure \cup {csTx[a].at}
    /\ csWorker' = IF csWorker = "error" THEN "last" ELSE csWorker
    /\ UNCHANGED <<csOrigin, csFile, csProc, csOver>>

\* Mutant: the count is not kept.
AppendCommitUncounted(a) == Appended(a) /\ UNCHANGED csRow

AppendCommit(a) == Appended(a) /\ csRow' = [csRow EXCEPT !.lines = csTx[a].line]

\* What an exception makes of the worker: its loop ends with an error to
\* append and a status to finish with; one more and its thread ends.
WorkerFails == csWorker' = CASE csWorker = "none" -> "none" [] csWorker = "loop" -> "error" [] OTHER -> "done"

\* The file cannot be written, or the commit fails and the line is in the file.
AppendFails(a) ==
    /\ csTx[a].op \in AppendOps /\ CsEnd(a) /\ WorkerFails
    /\ UNCHANGED <<csOrigin, csRow, csProc, lineVars>>

-----------------------------------------------------------------------------
\* finish_session, by the worker once the output has ended or failed, or by a
\* message of the client, which may report an error with it.
FinishRead(a, st, told) ==
    /\ HandlerFree /\ told \in {"same", csRow.told}
    /\ \/ csOrigin = "thin_client" /\ csProc = "exited"
       \/ csWorker = "loop" /\ csProc = "exited" /\ st # "terminated" /\ told = "same"
       \/ csWorker = "last" /\ st = "failed" /\ told # "same"
    /\ CsBegin(a, [op |-> "finish", loaded |-> csRow.status, status |-> st, told |-> told])
    /\ UNCHANGED <<csOrigin, csRow, csProc, csWorker, lineVars>>

\* A terminated session keeps its status; a meta is written as it was loaded.
FinishedStatus(t) == IF t.loaded \in {"terminated", t.status} THEN csRow.status ELSE t.status
FinishedTold(t) == IF t.told = "same" THEN csRow.told ELSE t.told

FinishCommit(a) ==
    /\ csTx[a].op = "finish" /\ CsEnd(a)
    /\ csRow' = [csRow EXCEPT !.status = FinishedStatus(csTx[a]), !.told = FinishedTold(csTx[a])]
    /\ csWorker' = IF csWorker = "none" THEN csWorker ELSE "done"
    /\ UNCHANGED <<csOrigin, csProc, lineVars>>

FinishFails(a) ==
    /\ csTx[a].op = "finish" /\ CsEnd(a) /\ WorkerFails
    /\ UNCHANGED <<csOrigin, csRow, csProc, lineVars>>

-----------------------------------------------------------------------------
\* The caller loads the session.
TerminateAsk(a) ==
    /\ csRow.status # "none"
    /\ CsBegin(a, [op |-> "terminate", loaded |-> csRow.status])
    /\ UNCHANGED <<csOrigin, csRow, csProc, csWorker, lineVars>>

\* terminate: this replica signals the process of a worker it holds, the client
\* has answered for its own; the status loaded before decides.
TerminateDone(a) ==
    /\ csTx[a].op = "terminate" /\ CsEnd(a)
    /\ csRow' = IF csTx[a].loaded \in Terminal THEN csRow ELSE [csRow EXCEPT !.status = "terminated"]
    /\ csProc' \in {csProc} \cup {x \in {"exited"} : csProc = "running" /\ csWorker # "done"}
    /\ UNCHANGED <<csOrigin, csWorker, lineVars>>

\* No answer from the client: the session is finished as lost.
TerminateLost(a) ==
    /\ csTx[a].op = "terminate" /\ csOrigin = "thin_client"
    /\ csTx' = [csTx EXCEPT ![a] =
         [op |-> "finish", loaded |-> csRow.status, status |-> "lost", told |-> csRow.told]]
    /\ UNCHANGED <<csOrigin, csRow, csProc, csWorker, lineVars>>

Revivable == {"running", "disconnecting", "lost"}

\* session_snapshot: the client reports the sessions it ran when it sent it.
SnapshotRead(a) ==
    /\ csOrigin = "thin_client" /\ csProc # "none" /\ csRow.status \in Revivable
    /\ CsBegin(a, [op |-> "snapshot", loaded |-> csRow.status])
    /\ UNCHANGED <<csOrigin, csRow, csProc, csWorker, lineVars>>

Snapshot(a) ==
    /\ csTx[a].op = "snapshot" /\ CsEnd(a)
    /\ csRow' = IF csTx[a].loaded = "running" THEN csRow ELSE [csRow EXCEPT !.status = "running"]
    /\ UNCHANGED <<csOrigin, csProc, csWorker, lineVars>>

\* The last connection of the client ends: its running sessions disconnect.
DropRead(a) ==
    /\ csOrigin = "thin_client" /\ csRow.status = "running"
    /\ CsBegin(a, [op |-> "drop", loaded |-> csRow.status])
    /\ UNCHANGED <<csOrigin, csRow, csProc, csWorker, lineVars>>

Drop(a) ==
    /\ csTx[a].op = "drop" /\ CsEnd(a)
    /\ csRow' = [csRow EXCEPT !.status = "disconnecting"]
    /\ UNCHANGED <<csOrigin, csProc, csWorker, lineVars>>

\* background_tails: a terminal session is reported until told.
TailRead(a) ==
    /\ csRow.status # "none" /\ ~(csRow.status \in Terminal /\ csRow.told = "yes")
    /\ CsBegin(a, [op |-> "tail", loaded |-> csRow.status])
    /\ UNCHANGED <<csOrigin, csRow, csProc, csWorker, lineVars>>

TailCommit(a) ==
    /\ csTx[a].op = "tail" /\ CsEnd(a)
    /\ csRow' = IF csTx[a].loaded \in Terminal THEN [csRow EXCEPT !.told = "yes"] ELSE csRow
    /\ UNCHANGED <<csOrigin, csProc, csWorker, lineVars>>

CsNext ==
    \/ CreateSession \/ StartProcess \/ ProcessExits
    \/ \E a \in CsActors :
         \/ AppendRead(a) \/ AppendWrite(a) \/ AppendCommit(a) \/ AppendFails(a)
         \/ \E st \in Ended, told \in {"same", "no", "yes"} : FinishRead(a, st, told)
         \/ FinishCommit(a) \/ FinishFails(a)
         \/ TerminateAsk(a) \/ TerminateDone(a) \/ TerminateLost(a)
         \/ SnapshotRead(a) \/ Snapshot(a) \/ DropRead(a) \/ Drop(a) \/ TailRead(a) \/ TailCommit(a)

CsSpec == CsInit /\ [][CsNext]_csVars

-----------------------------------------------------------------------------
\* A session that has ended comes back to life, whatever a reconnecting
\* client, a lost connection, a caller or the worker writes late, only through
\* a snapshot or a lost connection that had loaded it before its end.
EndedStaysEnded ==
    [][csRow.status \in Ended /\ csRow'.status \notin Terminal =>
         \E a \in CsActors : /\ csTx[a].op \in {"snapshot", "drop"} /\ csTx'[a] = CsIdle
                             /\ csTx[a].loaded \notin Ended]_csVars

\* A line appended while no other append was under way, and committed, has a
\* number smaller than every later line's, also when appends overlap or fail
\* after it and write the count they had loaded.
LinesNumberedOnce == \A i \in csSure, j \in DOMAIN csFile : i < j => csFile[i] < csFile[j]

\* No number is left out: a reader that goes on after the last it saw, or finds
\* a number twice, has not missed one.
NoLineSkipped == \A i \in DOMAIN csFile : csFile[i] = 1 \/ \E j \in 1..(i - 1) : csFile[j] + 1 = csFile[i]

\* The end of a local command is not hidden by an earlier report of its tail,
\* although worker, caller and report write the status and the meta they loaded.
EndIsTold == csOrigin = "server" /\ csRow.told = "yes" => csRow.status \in Terminal

\* The output of a session has no gap, is numbered once where appends do not
\* overlap or fail, and its end stays and is told.
CommandSessionsSound == [](LinesNumberedOnce /\ NoLineSkipped /\ EndIsTold) /\ EndedStaysEnded
=============================================================================
