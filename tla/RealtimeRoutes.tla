--------------------------- MODULE RealtimeRoutes ---------------------------
(***************************************************************************)
(* Realtime notifications of one agent on one gateway replica: the         *)
(* websocket of routers/realtime.py, the hub and the service of            *)
(* realtime.py and the subscription of broker.py.                          *)
(*                                                                         *)
(* A broker event whose agent has an online route here becomes a           *)
(* notification row, is written to the sockets of the hub, and the result  *)
(* is recorded; each of these is a wait.  A socket that connects registers *)
(* with the hub, then its route, then reads the pending rows and sends     *)
(* them.  The broker may deliver an event again at any time: the outbox    *)
(* publishes at least once and a plain subscriber also sees duplicates.    *)
(***************************************************************************)
EXTENDS Naturals, FiniteSets

CONSTANTS
    RtConns,        \* websocket connections
    RtMsgs,         \* broker events for the agent
    RtHandlers,     \* deliveries handled at the same time
    RtLimit         \* rows a connecting socket reads at most; 100 in the code

ASSUME RealtimeAssumption == IsFiniteSet(RtMsgs) /\ RtLimit \in Nat

VARIABLES
    rtConn,         \* stage of each connection
    rtHub,          \* connections of LocalRealtimeHub
    rtRoute,        \* RealtimeRoute rows that are online and not expired
    rtBacklog,      \* pending rows a connecting socket has read and not yet sent
    rtLeft,         \* history: pending rows its query left out at the limit
    rtSent,         \* what was written to each socket
    rtRows,         \* how many RealtimeNotification rows an event has
    rtStatus,       \* their status
    rtExpired,      \* notifications past expires_at
    rtSeen,         \* ProcessedBrokerMessage rows
    rtHandler,      \* deliveries in flight
    rtAcked         \* notifications the agent has acknowledged

rtVars == <<rtConn, rtHub, rtRoute, rtBacklog, rtLeft, rtSent, rtRows, rtStatus, rtExpired,
            rtSeen, rtHandler, rtAcked>>

RtStages == {"off", "accepted", "listed", "routed", "open", "closed"}
RtIdle == [stage |-> "idle"]
RtWork == {RtIdle} \cup [stage : {"insert", "list"}, msg : RtMsgs]
          \cup [stage : {"send"}, msg : RtMsgs, todo : SUBSET RtConns, delivered : BOOLEAN]

RtInit ==
    /\ rtConn = [k \in RtConns |-> "off"]
    /\ rtHub = {} /\ rtRoute = {}
    /\ rtBacklog = [k \in RtConns |-> {}]
    /\ rtLeft = [k \in RtConns |-> {}]
    /\ rtSent = [k \in RtConns |-> {}]
    /\ rtRows = [n \in RtMsgs |-> 0]
    /\ rtStatus = [n \in RtMsgs |-> "none"]
    /\ rtExpired = {}
    /\ rtSeen = {}
    /\ rtHandler = [h \in RtHandlers |-> RtIdle]
    /\ rtAcked = {}

--------------------------------------------------------------------------
(* The websocket.                                                          *)

\* LocalRealtimeHub.register
Registered(k) == rtHub \cup {k}

\* LocalRealtimeHub.unregister
Unregistered(k) == rtHub \ {k}

\* unregister_route
RouteOffline(k) == rtRoute \ {k}

\* accept, hub.register
Connect(k) ==
    /\ rtConn[k] = "off"
    /\ rtConn' = [rtConn EXCEPT ![k] = "accepted"]
    /\ rtHub' = Registered(k)
    /\ UNCHANGED <<rtRoute, rtBacklog, rtSent, rtRows, rtStatus, rtExpired, rtSeen, rtHandler, rtAcked, rtLeft>>

\* register_route
RegisterRoute(k) ==
    /\ rtConn[k] = "accepted"
    /\ rtConn' = [rtConn EXCEPT ![k] = "listed"]
    /\ rtRoute' = rtRoute \cup {k}
    /\ UNCHANGED <<rtHub, rtBacklog, rtSent, rtRows, rtStatus, rtExpired, rtSeen, rtHandler, rtAcked, rtLeft>>

\* list_notifications(status = pending, limit = 100)
Pending == {n \in RtMsgs : rtStatus[n] = "pending" /\ n \notin rtExpired}

\* The pending rows, or RtLimit of them.  They are read in the order of stamps
\* that the handlers took before their commits, which is any order here.
ReadBacklog(k) ==
    /\ rtConn[k] = "listed"
    /\ rtConn' = [rtConn EXCEPT ![k] = "routed"]
    /\ \E taken \in SUBSET Pending :
         /\ taken = Pending \/ Cardinality(taken) = RtLimit
         /\ Cardinality(taken) <= RtLimit
         /\ rtBacklog' = [rtBacklog EXCEPT ![k] = taken]
         /\ rtLeft' = [rtLeft EXCEPT ![k] = Pending \ taken]
    /\ UNCHANGED <<rtHub, rtRoute, rtSent, rtRows, rtStatus, rtExpired, rtSeen, rtHandler, rtAcked>>

\* One row of the backlog is sent, or the last one was.
SendBacklog(k) ==
    /\ rtConn[k] = "routed"
    /\ IF rtBacklog[k] = {}
       THEN /\ rtConn' = [rtConn EXCEPT ![k] = "open"]
            /\ UNCHANGED <<rtBacklog, rtSent>>
       ELSE \E n \in rtBacklog[k] :
            /\ rtBacklog' = [rtBacklog EXCEPT ![k] = @ \ {n}]
            /\ rtSent' = [rtSent EXCEPT ![k] = @ \cup {n}]
            /\ UNCHANGED rtConn
    /\ UNCHANGED <<rtHub, rtRoute, rtRows, rtStatus, rtExpired, rtSeen, rtHandler, rtAcked, rtLeft>>

\* acknowledge_notification
RtAcknowledge(k, n) ==
    /\ rtConn[k] = "open" /\ n \in rtSent[k]
    /\ rtStatus' = [rtStatus EXCEPT ![n] = "acknowledged"]
    /\ rtAcked' = rtAcked \cup {n}
    /\ UNCHANGED <<rtConn, rtHub, rtRoute, rtBacklog, rtSent, rtRows, rtExpired, rtSeen, rtHandler, rtLeft>>

\* The lifetime of a notification ends.
NotificationExpires(n) ==
    /\ n \in rtSeen \ rtExpired
    /\ rtExpired' = rtExpired \cup {n}
    /\ UNCHANGED <<rtConn, rtHub, rtRoute, rtBacklog, rtSent, rtRows, rtStatus, rtSeen, rtHandler, rtAcked, rtLeft>>

\* heartbeat_route renews the route; without heartbeats it expires.
RouteBeats(k) ==
    /\ rtConn[k] = "open"
    /\ rtRoute' = rtRoute \cup {k}
    /\ UNCHANGED <<rtConn, rtHub, rtBacklog, rtSent, rtRows, rtStatus, rtExpired, rtSeen, rtHandler, rtAcked, rtLeft>>

RouteExpires(k) ==
    /\ k \in rtRoute
    /\ rtRoute' = rtRoute \ {k}
    /\ UNCHANGED <<rtConn, rtHub, rtBacklog, rtSent, rtRows, rtStatus, rtExpired, rtSeen, rtHandler, rtAcked, rtLeft>>

\* The socket goes away.  Before the receive loop the exception passes both
\* unregister calls by, and hub and route keep the dead connection.
Disconnect(k) ==
    /\ rtConn[k] \notin {"off", "closed"}
    /\ rtConn' = [rtConn EXCEPT ![k] = "closed"]
    /\ rtBacklog' = [rtBacklog EXCEPT ![k] = {}]
    /\ IF rtConn[k] = "open"
       THEN rtHub' = Unregistered(k) /\ rtRoute' = RouteOffline(k)
       ELSE UNCHANGED <<rtHub, rtRoute>>
    /\ UNCHANGED <<rtSent, rtRows, rtStatus, rtExpired, rtSeen, rtHandler, rtAcked, rtLeft>>

--------------------------------------------------------------------------
(* The delivery of a broker event.                                         *)

\* _target_agent_ids: the agent has an online route on this replica.
Addressed == rtRoute # {}

\* _on_broker_event, up to the insert: an event without an online route, or one
\* that was processed, is dropped.
OnBrokerEvent(h, n) ==
    /\ rtHandler[h] = RtIdle
    /\ Addressed /\ n \notin rtSeen
    /\ rtHandler' = [rtHandler EXCEPT ![h] = [stage |-> "insert", msg |-> n]]
    /\ UNCHANGED <<rtConn, rtHub, rtRoute, rtBacklog, rtSent, rtRows, rtStatus, rtExpired, rtSeen, rtAcked, rtLeft>>

\* Plausible bug: the event is marked as processed without a unique key.
FirstOfEventAny(n) == TRUE

\* The primary key of ProcessedBrokerMessage.
FirstOfEvent(n) == n \notin rtSeen

\* The commit of _persist_broker_event; a second insert of the event fails and
\* its handler ends.
PersistEvent(h) ==
    /\ rtHandler[h].stage = "insert"
    /\ LET n == rtHandler[h].msg
       IN  IF FirstOfEvent(n)
           THEN /\ rtSeen' = rtSeen \cup {n}
                /\ rtRows' = [rtRows EXCEPT ![n] = @ + 1]
                /\ rtStatus' = [rtStatus EXCEPT ![n] = "pending"]
                /\ rtHandler' = [rtHandler EXCEPT ![h].stage = "list"]
           ELSE /\ rtHandler' = [rtHandler EXCEPT ![h] = RtIdle]
                /\ UNCHANGED <<rtSeen, rtRows, rtStatus>>
    /\ UNCHANGED <<rtConn, rtHub, rtRoute, rtBacklog, rtSent, rtExpired, rtAcked, rtLeft>>

\* hub.send lists the sockets of the agent under its lock.
HubList(h) ==
    /\ rtHandler[h].stage = "list"
    /\ rtHandler' = [rtHandler EXCEPT ![h] =
           [stage |-> "send", msg |-> rtHandler[h].msg, todo |-> rtHub, delivered |-> FALSE]]
    /\ UNCHANGED <<rtConn, rtHub, rtRoute, rtBacklog, rtSent, rtRows, rtStatus, rtExpired, rtSeen, rtAcked, rtLeft>>

\* hub.send, one socket: a failing one leaves the hub.
HubSend(h, k) ==
    /\ rtHandler[h].stage = "send" /\ k \in rtHandler[h].todo
    /\ IF rtConn[k] = "closed"
       THEN /\ rtHandler' = [rtHandler EXCEPT ![h].todo = @ \ {k}]
            /\ rtHub' = Unregistered(k)
            /\ UNCHANGED rtSent
       ELSE /\ rtHandler' = [rtHandler EXCEPT ![h].todo = @ \ {k}, ![h].delivered = TRUE]
            /\ rtSent' = [rtSent EXCEPT ![k] = @ \cup {rtHandler[h].msg}]
            /\ UNCHANGED rtHub
    /\ UNCHANGED <<rtConn, rtRoute, rtBacklog, rtRows, rtStatus, rtExpired, rtSeen, rtAcked, rtLeft>>

\* _record_delivery_results writes "delivered" whatever the row says by now.
RecordedStatus(n, delivered) == IF delivered THEN "delivered" ELSE rtStatus[n]

RecordDelivery(h) ==
    /\ rtHandler[h].stage = "send" /\ rtHandler[h].todo = {}
    /\ LET n == rtHandler[h].msg
       IN  rtStatus' = [rtStatus EXCEPT ![n] = RecordedStatus(n, rtHandler[h].delivered)]
    /\ rtHandler' = [rtHandler EXCEPT ![h] = RtIdle]
    /\ UNCHANGED <<rtConn, rtHub, rtRoute, rtBacklog, rtSent, rtRows, rtExpired, rtSeen, rtAcked, rtLeft>>

--------------------------------------------------------------------------
RtNext ==
    \/ \E n \in RtMsgs : NotificationExpires(n)
    \/ \E k \in RtConns :
         \/ Connect(k) \/ RegisterRoute(k) \/ ReadBacklog(k) \/ SendBacklog(k) \/ RouteBeats(k)
         \/ RouteExpires(k) \/ Disconnect(k)
         \/ \E n \in RtMsgs : RtAcknowledge(k, n)
    \/ \E h \in RtHandlers :
         \/ PersistEvent(h) \/ HubList(h) \/ RecordDelivery(h)
         \/ \E n \in RtMsgs : OnBrokerEvent(h, n)
         \/ \E k \in RtConns : HubSend(h, k)

RtSpec == RtInit /\ [][RtNext]_rtVars

--------------------------------------------------------------------------
RtTypeOK ==
    /\ rtConn \in [RtConns -> RtStages]
    /\ rtHub \subseteq RtConns /\ rtRoute \subseteq RtConns
    /\ rtBacklog \in [RtConns -> SUBSET RtMsgs] /\ rtLeft \in [RtConns -> SUBSET RtMsgs]
    /\ rtSent \in [RtConns -> SUBSET RtMsgs]
    /\ rtRows \in [RtMsgs -> Nat]
    /\ rtStatus \in [RtMsgs -> {"none", "pending", "delivered", "acknowledged"}]
    /\ rtExpired \subseteq RtMsgs /\ rtSeen \subseteq RtMsgs /\ rtAcked \subseteq RtMsgs
    /\ rtHandler \in [RtHandlers -> RtWork]

(* An event delivered twice at the same time makes one notification: both  *)
(* handlers pass the lookup, the key of the processed message stops the    *)
(* second, and it does so in the transaction of the notification.          *)
OneNotificationPerEvent == \A n \in RtMsgs : rtRows[n] <= 1

(* Nothing falls between backlog and live delivery: once a socket is open, *)
(* every notification that still waits as pending, has not expired, and    *)
(* whose handler is done, has been written to that socket; unless it was   *)
(* waiting already when the socket connected and exceeded the limit of its *)
(* backlog.  For this the websocket registers before it reads the backlog. *)
NothingMissed ==
    \A k \in RtConns : \A n \in Pending :
        /\ rtConn[k] = "open"
        /\ ~\E h \in RtHandlers : rtHandler[h].stage \in {"list", "send"} /\ rtHandler[h].msg = n
        => n \in rtSent[k] \cup rtLeft[k]

(* A notification the agent has acknowledged is never pending again, so no *)
(* later connection replays it, although the result of its delivery is     *)
(* recorded after the acknowledgement may have arrived.                    *)
AcknowledgedNotReplayed == \A n \in rtAcked : rtStatus[n] # "pending"

\* Every agent is told once of what concerns it, and not again after it has
\* acknowledged it.
RealtimeSound == OneNotificationPerEvent /\ NothingMissed /\ AcknowledgedNotReplayed
=============================================================================
