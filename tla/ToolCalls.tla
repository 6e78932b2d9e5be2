------------------------------ MODULE ToolCalls ------------------------------
(***************************************************************************)
(* tools/call on the MCP endpoint (routers/mcp.py): the AgentToolCall row, *)
(* the two file-writing tools and the FileChangeSet row that documents a   *)
(* write.  write_file changes a file of the server's workspace inside the  *)
(* handler, thin_client_write_file asks a connected client to change one   *)
(* of its files and waits for the answer.  The row of a call is committed  *)
(* "running" first, the file changes next, the change row is committed     *)
(* after it and the final status last, so that a timeout, an answer        *)
(* without hashes, a failed commit or a crash can fall between any two of  *)
(* them.  A file's content is named by the call that wrote it; leases are  *)
(* the subject of AgentCoordination, here a guarded call only carries the  *)
(* content it expects to replace (a guard that expects no file is left     *)
(* out).                                                                   *)
(***************************************************************************)
EXTENDS Naturals

CONSTANTS
    TkCalls,            \* tool calls
    NoHash,             \* no expectation, or a hash the client did not send
    Untouched,          \* the content before any call
    MaxTkCrashes        \* bound on crashes of the replica

ASSUME TkAssumption == MaxTkCrashes \in Nat /\ NoHash \notin TkCalls \cup {Untouched}

VARIABLES
    tkRow,              \* AgentToolCall.status
    tkCall,             \* the request: which tool, and what it expects
    tkStep,             \* where its handler stands
    tkFile,             \* content of the server's file and of the client's
    tkWire,             \* write requests the client has not handled yet
    tkReply,            \* answers on their way to the waiting handler
    tkWrites,           \* every write that really happened
    tkChanges,          \* FileChangeSet rows
    tkCrashes

tkVars == <<tkRow, tkCall, tkStep, tkFile, tkWire, tkReply, tkWrites,
            tkChanges, tkCrashes>>

Places == {"server", "client"}
TkContent == TkCalls \cup {Untouched}
Replies == [ok : BOOLEAN, before : TkContent \cup {NoHash}]
NoReply == [ok |-> FALSE, before |-> NoHash]
ChangeRow == [call : TkCalls, before : TkContent \cup {NoHash}]

TkInit ==
    /\ tkRow = [c \in TkCalls |-> "none"]
    /\ tkCall = [c \in TkCalls |-> [place |-> "server", expect |-> NoHash]]
    /\ tkStep = [c \in TkCalls |-> "idle"]
    /\ tkFile = [p \in Places |-> Untouched]
    /\ tkWire = {}
    /\ tkReply = [c \in TkCalls |-> NoReply]
    /\ tkWrites = {}
    /\ tkChanges = {}
    /\ tkCrashes = 0

Guarded(c) == tkCall[c].expect # NoHash
Expected(c) == ~Guarded(c) \/ tkCall[c].expect = tkFile[tkCall[c].place]

\* create_tool_call: the row is committed before anything else happens.
CreateToolCall(c) ==
    /\ tkStep[c] = "idle"
    /\ \E p \in Places, e \in TkContent \cup {NoHash} :
         /\ tkCall' = [tkCall EXCEPT ![c] = [place |-> p, expect |-> e]]
         /\ tkStep' = [tkStep EXCEPT ![c] =
                          CASE p = "server"                -> "writing"
                            [] p = "client" /\ e # NoHash  -> "checking"
                            [] p = "client" /\ e = NoHash  -> "sending"]
    /\ tkRow' = [tkRow EXCEPT ![c] = "running"]
    /\ UNCHANGED <<tkFile, tkWire, tkReply, tkWrites, tkChanges, tkCrashes>>

\* finish_tool_call, the last commit of a handler
FinishToolCall(c, status) ==
    /\ tkRow' = [tkRow EXCEPT ![c] = status]
    /\ tkStep' = [tkStep EXCEPT ![c] = "over"]

\* An admission error, an invalid argument, a lease that does not cover the
\* path, or a worktree in another Git state: nothing was sent or written.
RefuseCall(c) ==
    /\ tkStep[c] \in {"writing", "checking", "sending"}
    /\ FinishToolCall(c, "error")
    /\ UNCHANGED <<tkCall, tkFile, tkWire, tkReply, tkWrites, tkChanges, tkCrashes>>

\* _persist_file_change: the row and its event, one commit
PersistFileChange(c, before) ==
    tkChanges' = tkChanges \cup {[call |-> c, before |-> before]}

Write(c, p) ==
    /\ tkFile' = [tkFile EXCEPT ![p] = c]
    /\ tkWrites' = tkWrites \cup {[call |-> c, before |-> tkFile[p]]}

\* write_file: no suspension between reading the file and the last commit.
ServerWrite(c) ==
    /\ tkStep[c] = "writing" /\ Expected(c)
    /\ Write(c, "server")
    /\ PersistFileChange(c, tkFile["server"])
    /\ FinishToolCall(c, "success")
    /\ UNCHANGED <<tkCall, tkWire, tkReply, tkCrashes>>

\* The commit of the change row fails with a database error, which is no
\* HTTPException: the file is written and the call stays "running".
ServerWriteUnrecorded(c) ==
    /\ tkStep[c] = "writing" /\ Expected(c)
    /\ Write(c, "server")
    /\ tkStep' = [tkStep EXCEPT ![c] = "over"]
    /\ UNCHANGED <<tkRow, tkCall, tkWire, tkReply, tkChanges, tkCrashes>>

\* file_state has answered and the precondition holds, for now.
ClientState(c) ==
    /\ tkStep[c] = "checking" /\ Expected(c)
    /\ tkStep' = [tkStep EXCEPT ![c] = "sending"]
    /\ UNCHANGED <<tkRow, tkCall, tkFile, tkWire, tkReply, tkWrites, tkChanges,
                   tkCrashes>>

\* ThinClientManager.request sends the write and the handler waits.
SendWrite(c) ==
    /\ tkStep[c] = "sending"
    /\ tkStep' = [tkStep EXCEPT ![c] = "waiting"]
    /\ tkWire' = tkWire \cup {c}
    /\ UNCHANGED <<tkRow, tkCall, tkFile, tkReply, tkWrites, tkChanges, tkCrashes>>

Waiting(c) == tkStep[c] = "waiting" /\ c \notin tkWire

\* The client, external: it writes and answers, with the hash of what it
\* replaced or (an old client) without.  Nobody may be waiting any more.
ClientWrites(c) ==
    /\ c \in tkWire
    /\ Write(c, "client")
    /\ \E h \in {tkFile["client"], NoHash} :
         tkReply' = [tkReply EXCEPT ![c] = [ok |-> TRUE, before |-> h]]
    /\ tkWire' = tkWire \ {c}
    /\ UNCHANGED <<tkRow, tkCall, tkStep, tkChanges, tkCrashes>>

\* The client, external: it answers {"ok": false} and changes nothing.
ClientDeclines(c) ==
    /\ c \in tkWire
    /\ tkReply' = [tkReply EXCEPT ![c] = NoReply]
    /\ tkWire' = tkWire \ {c}
    /\ UNCHANGED <<tkRow, tkCall, tkStep, tkFile, tkWrites, tkChanges, tkCrashes>>

HashesMissing(c) == Guarded(c) /\ tkReply[c].before = NoHash

Declined(c) ==
    /\ Waiting(c) /\ ~tkReply[c].ok
    /\ FinishToolCall(c, "error")
    /\ UNCHANGED <<tkCall, tkFile, tkWire, tkReply, tkWrites, tkChanges, tkCrashes>>

\* 409 "Thin client did not return guarded write hashes", after the write
Unproven(c) ==
    /\ Waiting(c) /\ tkReply[c].ok /\ HashesMissing(c)
    /\ FinishToolCall(c, "error")
    /\ UNCHANGED <<tkCall, tkFile, tkWire, tkReply, tkWrites, tkChanges, tkCrashes>>

WriteAnswered(c) ==
    /\ Waiting(c) /\ tkReply[c].ok /\ ~HashesMissing(c)
    /\ PersistFileChange(c, tkReply[c].before)
    /\ FinishToolCall(c, "success")
    /\ UNCHANGED <<tkCall, tkFile, tkWire, tkReply, tkWrites, tkCrashes>>

\* Plausible bug: a write that was sent counts as done.
LostStatusOptimist(c) == "success"

LostStatus(c) == "error"

\* The request times out or the connection is lost; it may still be executed.
WriteLost(c) ==
    /\ tkStep[c] = "waiting"
    /\ FinishToolCall(c, LostStatus(c))
    /\ UNCHANGED <<tkCall, tkFile, tkWire, tkReply, tkWrites, tkChanges, tkCrashes>>

\* The replica dies: its handlers are gone, the rows stay as they are.
TkCrash ==
    /\ tkCrashes < MaxTkCrashes
    /\ tkStep' = [c \in TkCalls |-> IF tkStep[c] = "idle" THEN "idle" ELSE "over"]
    /\ tkCrashes' = tkCrashes + 1
    /\ UNCHANGED <<tkRow, tkCall, tkFile, tkWire, tkReply, tkWrites, tkChanges>>

TkNext ==
    \/ \E c \in TkCalls :
         \/ CreateToolCall(c) \/ RefuseCall(c)
         \/ ServerWrite(c) \/ ServerWriteUnrecorded(c)
         \/ ClientState(c) \/ SendWrite(c) \/ ClientWrites(c) \/ ClientDeclines(c)
         \/ Declined(c) \/ Unproven(c) \/ WriteAnswered(c) \/ WriteLost(c)
    \/ TkCrash

TkSpec == TkInit /\ [][TkNext]_tkVars
-----------------------------------------------------------------------------
TkTypeOK ==
    /\ tkRow \in [TkCalls -> {"none", "running", "success", "error"}]
    /\ tkCall \in [TkCalls -> [place : Places, expect : TkContent \cup {NoHash}]]
    /\ tkStep \in [TkCalls -> {"idle", "writing", "checking", "sending", "waiting", "over"}]
    /\ tkFile \in [Places -> TkContent]
    /\ tkWire \subseteq TkCalls
    /\ tkReply \in [TkCalls -> Replies]
    /\ tkWrites \subseteq [call : TkCalls, before : TkContent]
    /\ tkChanges \subseteq ChangeRow
    /\ tkCrashes \in 0 .. MaxTkCrashes

Changed(c) == {r \in tkChanges : r.call = c}

\* A FileChangeSet row documents a write that took place, and the hash it
\* gives for the replaced content is the one that write replaced, however
\* the writes of other calls fell between check, write and answer.
ChangesWereWritten ==
    \A r \in tkChanges :
        \E w \in tkWrites : w.call = r.call /\ r.before \in {w.before, NoHash}

\* A write call that is reported as a success has its change row, whatever
\* was lost on the way; and under a guard that row can be checked: it has
\* the hash of what was replaced.
SuccessIsRecorded ==
    \A c \in TkCalls :
        tkRow[c] = "success" =>
            /\ Changed(c) # {}
            /\ Guarded(c) => \A r \in Changed(c) : r.before # NoHash

\* A guarded write of the server's own file replaced what it expected.
ServerGuardKept ==
    \A c \in TkCalls, w \in tkWrites :
        (w.call = c /\ tkCall[c].place = "server" /\ Guarded(c))
            => w.before = tkCall[c].expect

\* The change rows are true, complete for what is reported as a success, and
\* a guard of the server's own file holds.
ToolCallsSound == ChangesWereWritten /\ SuccessIsRecorded /\ ServerGuardKept
=============================================================================
