----------------------------- MODULE AgentRooms -----------------------------
(***************************************************************************)
(* One collaboration room: its agents, and the numbered messages they send *)
(* each other with their deliveries.                                       *)
(***************************************************************************)
EXTENDS Integers, FiniteSets

CONSTANTS
    Members,        \* agents of the owner
    MsgKeys,        \* messages, by idempotency key
    RoomSessions,   \* database sessions
    NoSession       \* the room's row is not locked

ASSUME RoomsAssumption == NoSession \notin RoomSessions

VARIABLES
    member,         \* member[a]: the agent's row
    msg,            \* msg[k]: the message's row; seq is 0 before it is inserted
    delivery,       \* delivery[k][a]: status of the delivery
    rowLock,        \* the session that holds the room FOR UPDATE
    roomTx          \* roomTx[s]: what an open session has read

roomVars == <<member, msg, delivery, rowLock, roomTx>>

\* active, idle and busy agents are alike here; stale: expires_at has passed.
MemberRow == [status : {"active", "offline"}, room : BOOLEAN, stale : BOOLEAN]

MsgRow == [seq : Nat]

RoomIdle == [op |-> "idle"]

RoomInit ==
    /\ member = [a \in Members |-> [status |-> "active", room |-> TRUE, stale |-> FALSE]]
    /\ msg = [k \in MsgKeys |-> [seq |-> 0]]
    /\ delivery = [k \in MsgKeys |-> [a \in Members |-> "none"]]
    /\ rowLock = NoSession
    /\ roomTx = [s \in RoomSessions |-> RoomIdle]

RoomBegin(s, tx) == roomTx[s] = RoomIdle /\ roomTx' = [roomTx EXCEPT ![s] = tx]

\* The transaction ends; a lock it still holds is released.
RoomEnd(s) ==
    /\ roomTx' = [roomTx EXCEPT ![s] = RoomIdle]
    /\ rowLock' = IF rowLock = s THEN NoSession ELSE rowLock

-----------------------------------------------------------------------------
(* Agents: single-row writes of the columns named. *)
\* register_agent sets the room, heartbeat_agent keeps it.
RegisterAgent(a, room) ==
    /\ member' = [member EXCEPT ![a] = [status |-> "active", room |-> room, stale |-> FALSE]]
    /\ UNCHANGED <<msg, delivery, rowLock, roomTx>>

HeartbeatAgent(a) ==
    /\ member' = [member EXCEPT ![a] = [@ EXCEPT !.status = "active", !.stale = FALSE]]
    /\ UNCHANGED <<msg, delivery, rowLock, roomTx>>

UnregisterAgent(a) ==
    /\ member' = [member EXCEPT ![a] = [@ EXCEPT !.status = "offline", !.stale = TRUE]]
    /\ UNCHANGED <<msg, delivery, rowLock, roomTx>>

\* join_room leaves expires_at alone.
JoinRoom(a) ==
    /\ member' = [member EXCEPT ![a] = [@ EXCEPT !.status = "active", !.room = TRUE]]
    /\ UNCHANGED <<msg, delivery, rowLock, roomTx>>

\* The clock passes an agent's expires_at.
AgentTtlEnds(a) ==
    /\ ~member[a].stale
    /\ member' = [member EXCEPT ![a].stale = TRUE]
    /\ UNCHANGED <<msg, delivery, rowLock, roomTx>>

StaleAgents == {a \in Members : member[a].stale /\ member[a].status # "offline"}

\* _expire_stale_agents, also called by list_agents and room_snapshot.
ExpireStaleAgents ==
    member' = [a \in Members |-> IF a \in StaleAgents THEN [member[a] EXCEPT !.status = "offline"]
                                 ELSE member[a]]

ListAgents ==
    /\ StaleAgents # {}
    /\ ExpireStaleAgents
    /\ UNCHANGED <<msg, delivery, rowLock, roomTx>>

-----------------------------------------------------------------------------
(* send_message *)
\* The room is read FOR UPDATE; a message with the key ends the request.
SendLock(s, k, from, to) ==
    /\ rowLock = NoSession
    /\ member[from].room
    /\ msg[k].seq = 0
    /\ RoomBegin(s, [op |-> "send", k |-> k, from |-> from, to |-> to])
    /\ rowLock' = s
    /\ UNCHANGED <<member, msg, delivery>>

\* The recipients after the stale agents went offline: one agent in the
\* room, or all other active ones.
Recipients(from, to, rows) ==
    IF to \in Members THEN {a \in {to} : rows[a].room}
    ELSE {a \in Members \ {from} : rows[a].room /\ rows[a].status # "offline"}

\* _message_recipients. When an agent has expired, _expire_stale_agents
\* commits, and the lock on the room is gone. Without recipients: 409.
SendRecipients(s) ==
    /\ roomTx[s].op = "send"
    /\ ExpireStaleAgents
    /\ LET t == roomTx[s]
           to == Recipients(t.from, t.to, member') IN
       IF to = {} THEN RoomEnd(s)
       ELSE /\ roomTx' = [roomTx EXCEPT ![s] = [op |-> "number", k |-> t.k, to |-> to]]
            /\ rowLock' = IF StaleAgents # {} /\ rowLock = s THEN NoSession ELSE rowLock
    /\ UNCHANGED <<msg, delivery>>

Numbers == {msg[k].seq : k \in MsgKeys} \ {0}

\* coalesce(max(sequence_number), 0) + 1 over the committed messages.
NextSequence == IF Numbers = {} THEN 1 ELSE (CHOOSE n \in Numbers : \A m \in Numbers : m <= n) + 1

SendNumber(s) ==
    /\ roomTx[s].op = "number"
    /\ roomTx' = [roomTx EXCEPT ![s] = [op |-> "insert", k |-> @.k, to |-> @.to,
                                        seq |-> NextSequence]]
    /\ UNCHANGED <<member, msg, delivery, rowLock>>

\* The unique constraints on (owner, key) and (owner, room, number).
MessageAdmitted(k, seq) == msg[k].seq = 0 /\ seq \notin Numbers

SendCommit(s) ==
    /\ roomTx[s].op = "insert"
    /\ LET t == roomTx[s] IN
       IF MessageAdmitted(t.k, t.seq)
       THEN /\ msg' = [msg EXCEPT ![t.k] = [seq |-> t.seq]]
            /\ delivery' = [delivery EXCEPT ![t.k] =
                              [a \in Members |-> IF a \in t.to THEN "pending" ELSE "none"]]
       ELSE UNCHANGED <<msg, delivery>>      \* IntegrityError: rolled back
    /\ RoomEnd(s)
    /\ UNCHANGED <<member>>

\* read_inbox: every unacknowledged delivery of the agent is read and then
\* marked; a status that was already "delivered" is not written again.
InboxRead(s, a) ==
    /\ \E k \in MsgKeys : delivery[k][a] \in {"pending", "delivered"}
    /\ RoomBegin(s, [op |-> "inbox", a |-> a, fresh |-> {k \in MsgKeys : delivery[k][a] = "pending"}])
    /\ UNCHANGED <<member, msg, delivery, rowLock>>

InboxCommit(s) ==
    /\ roomTx[s].op = "inbox"
    /\ delivery' = [k \in MsgKeys |-> IF k \in roomTx[s].fresh
                                      THEN [delivery[k] EXCEPT ![roomTx[s].a] = "delivered"]
                                      ELSE delivery[k]]
    /\ RoomEnd(s)
    /\ UNCHANGED <<member, msg>>

\* ack_message
AckMessage(a, k) ==
    /\ delivery[k][a] \in {"pending", "delivered"}
    /\ delivery' = [delivery EXCEPT ![k][a] = "acknowledged"]
    /\ UNCHANGED <<member, msg, rowLock, roomTx>>

-----------------------------------------------------------------------------
\* The tool calls of an agent: call_agent_collaboration_tool's dispatch.
RoomTool(s) ==
    \/ \E a \in Members : \/ \E r \in BOOLEAN : RegisterAgent(a, r)
                          \/ HeartbeatAgent(a) \/ UnregisterAgent(a) \/ JoinRoom(a)
                          \/ InboxRead(s, a)
                          \/ \E k \in MsgKeys : AckMessage(a, k)
    \/ ListAgents
    \/ \E k \in MsgKeys, a \in Members, to \in Members \cup {"room"} : SendLock(s, k, a, to)

RoomNext ==
    \/ \E s \in RoomSessions : \/ RoomTool(s) \/ SendRecipients(s) \/ SendNumber(s) \/ SendCommit(s)
                               \/ InboxCommit(s)
    \/ \E a \in Members : AgentTtlEnds(a)

RoomSpec == RoomInit /\ [][RoomNext]_roomVars

-----------------------------------------------------------------------------
RoomTypeOK ==
    /\ member \in [Members -> MemberRow]
    /\ msg \in [MsgKeys -> MsgRow]
    /\ delivery \in [MsgKeys -> [Members -> {"none", "pending", "delivered", "acknowledged"}]]
    /\ rowLock \in RoomSessions \cup {NoSession}

\* The messages of a room are numbered 1, 2, 3, ... without a gap and
\* without a repetition, although expiring an agent gives up the room lock
\* between the lookup of the highest number and the insert.
SequenceGapless ==
    LET sent == {k \in MsgKeys : msg[k].seq # 0} IN
    {msg[k].seq : k \in sent} = 1..Cardinality(sent)

=============================================================================
