--------------------------- MODULE LocalCatalogue ---------------------------
(***************************************************************************)
(* The tool catalogue of a thin client's local MCP server, mirrored by the *)
(* Gateway from snapshots and deltas (thin_client_mcp).  A connection      *)
(* delivers its messages in order and loses the rest when another takes    *)
(* its place, but a message that its replica has begun to handle goes on   *)
(* beside those of the new connection.  The handler reads the rows, then   *)
(* commits the tools, then the connection's catalogue generation; a column *)
(* is written only if it differs from what the handler read.               *)
(***************************************************************************)
EXTENDS Naturals, Sequences

CONSTANTS
    LcTools,        \* tool names
    LcVersions,     \* descriptors of a tool
    NoTool,
    LcSanitized,    \* the descriptor that a revision's sanitized fields make up
    MaxLcGen,       \* bound on catalogue generations of the client
    MaxLcConns,     \* bound on connections
    MaxLcQueue      \* bound on messages under way

ASSUME LocalCatalogueAssumption ==
    /\ NoTool \notin LcVersions
    /\ MaxLcGen \in Nat \ {0} /\ MaxLcConns \in Nat \ {0} /\ MaxLcQueue \in Nat

\* Sanitizing a descriptor a second time changes nothing.
ASSUME SanitizedAssumption ==
    /\ LcSanitized \in [LcVersions -> LcVersions]
    /\ \A v \in LcVersions : LcSanitized[LcSanitized[v]] = LcSanitized[v]

VARIABLES
    lcLocal,        \* the client's catalogue per generation, in order
    lcSent,         \* the generation the client last sent on this connection
    lcQueue,        \* messages under way
    lcConn,         \* number of the connection that is registered
    lcRow,          \* McpRuntimeConnection per connection: client_catalog_generation, 0 is
                    \* none, and the tools snapshot_sha256 was taken of
    lcTool,         \* McpTool rows
    lcTask,         \* the message a connection's handler is at, with what it read
    lcLate,         \* history: connections whose handler another's commit overtook
    lcOff           \* history: connections whose row no longer tells what the mirror holds

lcVars == <<lcLocal, lcSent, lcQueue, lcConn, lcRow, lcTool, lcTask, lcLate, lcOff>>
clientVars == <<lcLocal, lcSent, lcQueue, lcConn>>

Catalogues == [LcTools -> LcVersions \cup {NoTool}]
NoTools == [t \in LcTools |-> NoTool]
LocalGen == Len(lcLocal)
Conns == 1..MaxLcConns

\* A revision is known by the descriptor its hash was taken of.
ToolRow == [rev : LcVersions \cup {NoTool}, state : {"active", "missing"}]
CatalogueRow == [gen : 0..MaxLcGen, tools : Catalogues]
Task == [at : {"idle", "tools", "rest"}, type : {"snapshot", "delta"}, gen : 0..MaxLcGen,
         tools : Catalogues, seen : [LcTools -> ToolRow]]

NoRows == [t \in LcTools |-> [rev |-> NoTool, state |-> "missing"]]
NoTask == [at |-> "idle", type |-> "snapshot", gen |-> 0, tools |-> NoTools, seen |-> NoRows]

LcInit ==
    /\ lcLocal = <<NoTools>> /\ lcSent = 0 /\ lcQueue = <<>> /\ lcConn = 1
    /\ lcRow = [c \in Conns |-> [gen |-> 0, tools |-> NoTools]]
    /\ lcTool = NoRows
    /\ lcTask = [c \in Conns |-> NoTask]
    /\ lcLate = {} /\ lcOff = {}

-----------------------------------------------------------------------------
(* The client.                                                             *)

\* The local server's tools change.
ToolsChange ==
    /\ LocalGen < MaxLcGen
    /\ \E c \in Catalogues \ {lcLocal[LocalGen]} : lcLocal' = Append(lcLocal, c)
    /\ UNCHANGED <<lcSent, lcQueue, lcConn, lcRow, lcTool, lcTask, lcLate, lcOff>>

Send(msg) ==
    /\ Len(lcQueue) < MaxLcQueue
    /\ lcQueue' = Append(lcQueue, msg)
    /\ lcSent' = LocalGen
    /\ UNCHANGED <<lcLocal, lcConn, lcRow, lcTool, lcTask, lcLate, lcOff>>

SendSnapshot == Send([type |-> "snapshot", base |-> 0, gen |-> LocalGen])

\* A delta names what changed since the generation sent before it, or since the
\* one that was acknowledged last.
SendDelta ==
    \E base \in {lcSent, lcRow[lcConn].gen} \cap 1..(LocalGen - 1) :
        Send([type |-> "delta", base |-> base, gen |-> LocalGen])

\* register_runtime: a new row; the others are stale, and with them their messages.
Reconnect ==
    /\ lcConn < MaxLcConns
    /\ lcConn' = lcConn + 1 /\ lcQueue' = <<>> /\ lcSent' = 0
    /\ UNCHANGED <<lcLocal, lcRow, lcTool, lcTask, lcLate, lcOff>>

-----------------------------------------------------------------------------
(* The handlers.                                                           *)

Stored(v) == IF v = NoTool THEN NoTool ELSE LcSanitized[v]

Mirrored(t) == IF lcTool[t].state = "active" THEN lcTool[t].rev ELSE NoTool

\* The tools a message leads to.  What a delta does not name is taken from
\* _current_snapshot, out of the revision's sanitized fields.
Merged(msg) ==
    [t \in LcTools |->
       IF msg.type = "snapshot" \/ lcLocal[msg.gen][t] # lcLocal[msg.base][t]
       THEN lcLocal[msg.gen][t] ELSE Stored(Mirrored(t))]

\* Mutant: any base will do.
BaseMatchesAny(msg) == TRUE

\* reconcile_delta refuses a delta whose base is not the row's generation and
\* asks for a snapshot.
BaseMatches(msg) == msg.type = "delta" => msg.base = lcRow[lcConn].gen

\* The generation and the digest are those of the row.
SameSnapshot(msg) == lcRow[lcConn] = [gen |-> msg.gen, tools |-> Merged(msg)]

Drop ==
    /\ lcQueue' = Tail(lcQueue)
    /\ UNCHANGED <<lcLocal, lcSent, lcConn, lcRow, lcTool, lcTask, lcLate, lcOff>>

Handles == lcQueue # <<>> /\ lcTask[lcConn].at = "idle"

Mismatch == Handles /\ ~BaseMatches(lcQueue[1]) /\ Drop

Unchanged == Handles /\ BaseMatches(lcQueue[1]) /\ SameSnapshot(lcQueue[1]) /\ Drop

\* reconcile_snapshot up to the commit of the tools.
ReadMessage ==
    /\ Handles /\ BaseMatches(lcQueue[1]) /\ ~SameSnapshot(lcQueue[1])
    /\ lcTask' = [lcTask EXCEPT ![lcConn] =
           [at |-> "tools", type |-> lcQueue[1].type, gen |-> lcQueue[1].gen,
            tools |-> Merged(lcQueue[1]), seen |-> lcTool]]
    /\ lcQueue' = Tail(lcQueue)
    /\ lcLate' = lcLate \ {lcConn}
    /\ UNCHANGED <<lcLocal, lcSent, lcConn, lcRow, lcTool, lcOff>>

\* The tools are refused, or the handler's process ends.
RefuseTools(c) ==
    /\ lcTask[c].at = "tools"
    /\ lcTask' = [lcTask EXCEPT ![c] = NoTask]
    /\ UNCHANGED <<clientVars, lcRow, lcTool, lcLate, lcOff>>

\* record_tool_revision, and "missing" for the active tools that are not named.
Recorded(want, seen, now) ==
    LET state == IF want = NoTool THEN "missing" ELSE "active"
    IN  [rev |-> IF want # NoTool /\ want # seen.rev THEN want ELSE now.rev,
         state |-> IF state # seen.state THEN state ELSE now.state]

\* The unique index on the tools' names: both handlers found no row.
InsertClash(k) ==
    \E t \in LcTools : k.tools[t] # NoTool /\ k.seen[t].rev = NoTool /\ lcTool[t].rev # NoTool

CommitTools(c) ==
    /\ lcTask[c].at = "tools" /\ ~InsertClash(lcTask[c])
    /\ lcTool' = [t \in LcTools |-> Recorded(lcTask[c].tools[t], lcTask[c].seen[t], lcTool[t])]
    /\ lcTask' = [lcTask EXCEPT ![c].at = "rest"]
    /\ lcLate' = Conns \ {c}
    /\ lcOff' = (Conns \ {c}) \cup
                (IF lcTask[c].type = "snapshot" /\ c \notin lcLate THEN {} ELSE lcOff)
    /\ UNCHANGED <<clientVars, lcRow>>

\* Then resources and prompts, and the row ...
Acknowledge(c) ==
    /\ lcTask[c].at = "rest"
    /\ lcRow' = [lcRow EXCEPT ![c] = [gen |-> lcTask[c].gen, tools |-> lcTask[c].tools]]
    /\ lcTask' = [lcTask EXCEPT ![c] = NoTask]
    /\ UNCHANGED <<clientVars, lcTool, lcLate, lcOff>>

\* ... unless one of those is refused, or the process ends.
RefuseRest(c) ==
    /\ lcTask[c].at = "rest"
    /\ lcTask' = [lcTask EXCEPT ![c] = NoTask]
    /\ lcOff' = lcOff \cup {c}
    /\ UNCHANGED <<clientVars, lcRow, lcTool, lcLate>>

LcNext == \/ ToolsChange \/ SendSnapshot \/ SendDelta \/ Reconnect
          \/ Mismatch \/ Unchanged \/ ReadMessage
          \/ \E c \in Conns : RefuseTools(c) \/ CommitTools(c) \/ Acknowledge(c) \/ RefuseRest(c)

LcSpec == LcInit /\ [][LcNext]_lcVars

-----------------------------------------------------------------------------
LcTypeOK ==
    /\ lcLocal \in Seq(Catalogues) /\ LocalGen \in 1..MaxLcGen
    /\ lcSent \in 0..MaxLcGen /\ lcConn \in Conns
    /\ lcRow \in [Conns -> CatalogueRow]
    /\ lcTool \in [LcTools -> ToolRow]
    /\ lcTask \in [Conns -> Task]
    /\ lcLate \subseteq Conns /\ lcOff \subseteq Conns

\* The mirror holds the client's generation gen: each tool as the client
\* described it or, after a delta, as that description was stored.
Mirrors(gen, type) ==
    \A t \in LcTools :
        \/ Mirrored(t) = lcLocal[gen][t]
        \/ type = "delta" /\ Mirrored(t) = Stored(lcLocal[gen][t])

\* However snapshots, deltas, refusals and reconnections alternate, a
\* generation the Gateway acknowledges is mirrored; unless, since the snapshot
\* it rests on, a handler of another connection committed its tools or one of
\* this connection got no further than that.
AcknowledgedIsMirrored ==
    [][\A c \in Conns : lcRow'[c] # lcRow[c] /\ c \notin lcOff
                        => Mirrors(lcRow'[c].gen, lcTask[c].type)]_lcVars
=============================================================================
