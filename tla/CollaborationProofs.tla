------------------------- MODULE CollaborationProofs -------------------------
(***************************************************************************)
(* Proofs about the collaboration of agents, for any number of rooms,      *)
(* messages, commands, items, workers, loops and database sessions.  Each  *)
(* section finds the inductive invariant of one component and proves what  *)
(* the run Agents checks of it; the last one composes them.                *)
(***************************************************************************)
EXTENDS MCAgents, AgentCoordinationProofs, FiniteSetTheorems, TLAPS

-----------------------------------------------------------------------------
(* Messages of a room (AgentRooms)                                         *)

\* The messages that have their number.
SentMsgs == {k \in MsgKeys : msg[k].seq # 0}

RoomTxState ==
    {RoomIdle}
    \cup [op : {"send"}, k : MsgKeys, from : Members, to : Members \cup {"room"}]
    \cup [op : {"number"}, k : MsgKeys, to : SUBSET Members]
    \cup [op : {"insert"}, k : MsgKeys, to : SUBSET Members, seq : Nat]
    \cup [op : {"inbox"}, a : Members, fresh : SUBSET MsgKeys]

\* A number a request has looked up is at most one above the highest: it is
\* either taken by now, and refused, or still the next one.
NumbersLookedUp ==
    \A s \in RoomSessions : roomTx[s].op = "insert" => roomTx[s].seq \in 1..(Cardinality(SentMsgs) + 1)

RoomInv ==
    /\ RoomTypeOK /\ roomTx \in [RoomSessions -> RoomTxState]
    /\ IsFiniteSet(SentMsgs) /\ SequenceGapless /\ NumbersLookedUp

(* What a send or an inbox call has read, by the place it has reached.       *)
LEMMA RoomTxFields ==
  ASSUME NEW t \in RoomTxState
  PROVE  /\ t.op = "send" => t.k \in MsgKeys /\ t.from \in Members
         /\ t.op = "number" => t.k \in MsgKeys /\ t.to \in SUBSET Members
         /\ t.op = "insert" => t.k \in MsgKeys /\ t.to \in SUBSET Members /\ t.seq \in Nat
         /\ t.op = "inbox" => t.a \in Members /\ t.fresh \in SUBSET MsgKeys
  BY DEF RoomTxState, RoomIdle

(* The idle session is one of the session states.                            *)
LEMMA RoomIdleState == RoomIdle \in RoomTxState /\ RoomIdle.op = "idle"
  BY DEF RoomTxState, RoomIdle

\* The numbers in use, and the next one.
LEMMA RoomNumbers ==
  ASSUME RoomTypeOK, IsFiniteSet(SentMsgs), SequenceGapless
  PROVE  /\ Cardinality(SentMsgs) \in Nat /\ Numbers = 1..Cardinality(SentMsgs)
         /\ NextSequence = Cardinality(SentMsgs) + 1
  <1>1. Cardinality(SentMsgs) \in Nat
    BY FS_CardinalityType
  <1>2. {msg[k].seq : k \in SentMsgs} = 1..Cardinality(SentMsgs)
    BY DEF SequenceGapless, SentMsgs
  <1>3. Numbers = {msg[k].seq : k \in SentMsgs}
    BY DEF Numbers, SentMsgs
  <1>4. PICK n \in Nat : n = Cardinality(SentMsgs)
    BY <1>1
  <1>5. Numbers = 1..n
    BY <1>2, <1>3, <1>4
  <1>6. CASE n = 0
    BY <1>4, <1>5, <1>6 DEF NextSequence
  <1>7. CASE n # 0
    <2>1. n \in Numbers /\ \A m \in Numbers : m \in Nat /\ m <= n
      BY <1>4, <1>5, <1>7
    <2>2. PICK c : c = CHOOSE x \in Numbers : \A m \in Numbers : m <= x
      OBVIOUS
    <2>3. c \in Numbers /\ \A m \in Numbers : m <= c
      BY <2>1, <2>2
    <2>4. c = n
      BY <1>4, <2>1, <2>3
    <2>5. NextSequence = c + 1
      BY <2>1, <2>2 DEF NextSequence
    <2> QED
      BY <1>4, <1>5, <2>4, <2>5
  <1> QED
    BY <1>4, <1>5, <1>6, <1>7

(* An empty room satisfies the invariant.                                    *)
LEMMA RoomInitInv == RoomInit => RoomInv
  <1> SUFFICES ASSUME RoomInit PROVE RoomInv
    OBVIOUS
  <1>1. RoomTypeOK
    BY DEF RoomInit, RoomTypeOK, MemberRow, MsgRow
  <1>2. roomTx \in [RoomSessions -> RoomTxState] /\ \A s \in RoomSessions : roomTx[s].op = "idle"
    BY RoomIdleState DEF RoomInit
  <1>3. SentMsgs = {}
    BY DEF RoomInit, SentMsgs
  <1>4. IsFiniteSet(SentMsgs) /\ Cardinality(SentMsgs) = 0
    BY <1>3, FS_EmptySet
  <1>5. SequenceGapless
    <2>1. {msg[k].seq : k \in SentMsgs} = {}
      BY <1>3
    <2>2. 1..Cardinality(SentMsgs) = {}
      BY <1>4
    <2> QED
      BY <2>1, <2>2 DEF SequenceGapless, SentMsgs
  <1> QED
    BY <1>1, <1>2, <1>4, <1>5 DEF RoomInv, NumbersLookedUp

\* What does not touch the messages keeps their numbers.
LEMMA RoomQuiet ==
  ASSUME RoomInv, RoomTypeOK', msg' = msg, roomTx' \in [RoomSessions -> RoomTxState],
         \A s \in RoomSessions : roomTx'[s].op = "insert" =>
            roomTx'[s] = roomTx[s] \/ roomTx'[s].seq = NextSequence
  PROVE  RoomInv'
  <1>1. SentMsgs' = SentMsgs
    BY DEF SentMsgs
  <1>2. IsFiniteSet(SentMsgs)' /\ SequenceGapless'
    BY <1>1 DEF RoomInv, SequenceGapless
  <1>3. PICK n \in Nat : n = Cardinality(SentMsgs) /\ NextSequence = n + 1
    BY RoomNumbers DEF RoomInv
  <1>4. n + 1 \in 1..(n + 1)
    BY <1>3
  <1>5. NumbersLookedUp'
    BY <1>1, <1>3, <1>4 DEF RoomInv, NumbersLookedUp
  <1> QED
    BY <1>2, <1>5 DEF RoomInv

(* Every statement of send_message, inbox and acknowledge keeps the          *)
(* invariant.                                                                *)
LEMMA RoomStepInv == RoomInv /\ [RoomNext]_roomVars => RoomInv'
  <1> SUFFICES ASSUME RoomInv, [RoomNext]_roomVars PROVE RoomInv'
    OBVIOUS
  <1>t. /\ member \in [Members -> MemberRow] /\ msg \in [MsgKeys -> MsgRow]
        /\ delivery \in [MsgKeys -> [Members -> {"none", "pending", "delivered", "acknowledged"}]]
        /\ rowLock \in RoomSessions \cup {NoSession}
        /\ roomTx \in [RoomSessions -> RoomTxState]
    BY DEF RoomInv, RoomTypeOK
  <1>m. ASSUME member' \in [Members -> MemberRow], UNCHANGED <<msg, delivery, rowLock, roomTx>> PROVE RoomInv'
    <2>1. RoomTypeOK'
      BY <1>t, <1>m DEF RoomTypeOK
    <2> QED
      BY <1>t, <1>m, <2>1, RoomQuiet
  <1>x. member' = [a \in Members |-> IF a \in StaleAgents THEN [member[a] EXCEPT !.status = "offline"] ELSE member[a]]
          => member' \in [Members -> MemberRow]
    BY <1>t DEF MemberRow
  <1>1. ASSUME NEW a \in Members, NEW r \in BOOLEAN, RegisterAgent(a, r) PROVE RoomInv'
    BY <1>t, <1>m, <1>1 DEF RegisterAgent, MemberRow
  <1>2. ASSUME NEW a \in Members, HeartbeatAgent(a) PROVE RoomInv'
    BY <1>t, <1>m, <1>2 DEF HeartbeatAgent, MemberRow
  <1>3. ASSUME NEW a \in Members, UnregisterAgent(a) PROVE RoomInv'
    BY <1>t, <1>m, <1>3 DEF UnregisterAgent, MemberRow
  <1>4. ASSUME NEW a \in Members, JoinRoom(a) PROVE RoomInv'
    BY <1>t, <1>m, <1>4 DEF JoinRoom, MemberRow
  <1>5. ASSUME NEW a \in Members, AgentTtlEnds(a) PROVE RoomInv'
    BY <1>t, <1>m, <1>5 DEF AgentTtlEnds, MemberRow
  <1>6. CASE ListAgents
    BY <1>m, <1>x, <1>6 DEF ListAgents, ExpireStaleAgents
  <1>7. ASSUME NEW s \in RoomSessions, NEW a \in Members, InboxRead(s, a) PROVE RoomInv'
    <2>1. PICK t : t = [op |-> "inbox", a |-> a, fresh |-> {k \in MsgKeys : delivery[k][a] = "pending"}]
      OBVIOUS
    <2>2. t \in RoomTxState /\ t.op = "inbox"
      BY <2>1 DEF RoomTxState
    <2>3. roomTx' = [roomTx EXCEPT ![s] = t] /\ UNCHANGED <<member, msg, delivery, rowLock>>
      BY <1>7, <2>1 DEF InboxRead, RoomBegin
    <2>4. RoomTypeOK'
      BY <1>t, <2>3 DEF RoomTypeOK
    <2> QED
      BY <1>t, <2>2, <2>3, <2>4, RoomQuiet
  <1>8. ASSUME NEW a \in Members, NEW k \in MsgKeys, AckMessage(a, k) PROVE RoomInv'
    <2>1. delivery' \in [MsgKeys -> [Members -> {"none", "pending", "delivered", "acknowledged"}]]
      BY <1>t, <1>8 DEF AckMessage
    <2>2. UNCHANGED <<member, msg, rowLock, roomTx>>
      BY <1>8 DEF AckMessage
    <2>3. RoomTypeOK'
      BY <1>t, <2>1, <2>2 DEF RoomTypeOK
    <2> QED
      BY <1>t, <2>2, <2>3, RoomQuiet
  <1>9. ASSUME NEW s \in RoomSessions, NEW k \in MsgKeys, NEW a \in Members, NEW to \in Members \cup {"room"}, SendLock(s, k, a, to)
        PROVE  RoomInv'
    <2>1. PICK t : t = [op |-> "send", k |-> k, from |-> a, to |-> to]
      OBVIOUS
    <2>2. t \in RoomTxState /\ t.op = "send"
      BY <2>1 DEF RoomTxState
    <2>3. roomTx' = [roomTx EXCEPT ![s] = t] /\ rowLock' = s /\ UNCHANGED <<member, msg, delivery>>
      BY <1>9, <2>1 DEF SendLock, RoomBegin
    <2>4. RoomTypeOK'
      BY <1>t, <2>3 DEF RoomTypeOK
    <2> QED
      BY <1>t, <2>2, <2>3, <2>4, RoomQuiet
  <1>10. ASSUME NEW s \in RoomSessions, SendRecipients(s) PROVE RoomInv'
    <2>1. PICK t \in RoomTxState : t = roomTx[s]
      BY <1>t
    <2>2. t.op = "send" /\ t.k \in MsgKeys
      BY <1>10, <2>1, RoomTxFields DEF SendRecipients
    <2>3. PICK to : to = Recipients(t.from, t.to, member')
      OBVIOUS
    <2>4. to \subseteq Members
      BY <2>3 DEF Recipients
    <2>5. PICK u \in RoomTxState : u.op # "insert" /\ roomTx' = [roomTx EXCEPT ![s] = u]
      <3>1. CASE to = {}
        BY <1>10, <2>1, <2>3, <3>1, RoomIdleState DEF SendRecipients, RoomEnd
      <3>2. CASE to # {}
        <4>1. PICK u : u = [op |-> "number", k |-> t.k, to |-> to]
          OBVIOUS
        <4>2. u \in RoomTxState /\ u.op = "number"
          BY <2>2, <2>4, <4>1 DEF RoomTxState
        <4>3. roomTx' = [roomTx EXCEPT ![s] = u]
          BY <1>10, <2>1, <2>3, <3>2, <4>1 DEF SendRecipients
        <4> QED
          BY <4>2, <4>3
      <3> QED
        BY <3>1, <3>2
    <2>6. rowLock' \in RoomSessions \cup {NoSession}
      BY <1>t, <1>10 DEF SendRecipients, RoomEnd
    <2>7. member' \in [Members -> MemberRow]
      BY <1>x, <1>10 DEF SendRecipients, ExpireStaleAgents
    <2>8. UNCHANGED <<msg, delivery>>
      BY <1>10 DEF SendRecipients
    <2>9. RoomTypeOK'
      BY <1>t, <2>6, <2>7, <2>8 DEF RoomTypeOK
    <2> QED
      BY <1>t, <2>5, <2>8, <2>9, RoomQuiet
  <1>11. ASSUME NEW s \in RoomSessions, SendNumber(s) PROVE RoomInv'
    <2>1. PICK t \in RoomTxState : t = roomTx[s]
      BY <1>t
    <2>2. t.op = "number" /\ t.k \in MsgKeys /\ t.to \in SUBSET Members
      BY <1>11, <2>1, RoomTxFields DEF SendNumber
    <2>3. NextSequence \in Nat
      BY RoomNumbers DEF RoomInv
    <2>4. PICK u : u = [op |-> "insert", k |-> t.k, to |-> t.to, seq |-> NextSequence]
      OBVIOUS
    <2>5. u \in RoomTxState /\ u.seq = NextSequence
      BY <2>2, <2>3, <2>4 DEF RoomTxState
    <2>6. roomTx' = [roomTx EXCEPT ![s] = u] /\ UNCHANGED <<member, msg, delivery, rowLock>>
      BY <1>11, <2>1, <2>4 DEF SendNumber
    <2>7. RoomTypeOK'
      BY <1>t, <2>6 DEF RoomTypeOK
    <2> QED
      BY <1>t, <2>5, <2>6, <2>7, RoomQuiet
  <1>12. ASSUME NEW s \in RoomSessions, SendCommit(s) PROVE RoomInv'
    <2>1. PICK t \in RoomTxState : t = roomTx[s]
      BY <1>t
    <2>2. t.op = "insert" /\ t.k \in MsgKeys /\ t.to \in SUBSET Members /\ t.seq \in Nat
      BY <1>12, <2>1, RoomTxFields DEF SendCommit
    <2>3. /\ roomTx' = [roomTx EXCEPT ![s] = RoomIdle] /\ member' = member
          /\ rowLock' \in RoomSessions \cup {NoSession}
      BY <1>t, <1>12 DEF SendCommit, RoomEnd
    <2>4. /\ roomTx' \in [RoomSessions -> RoomTxState] /\ roomTx'[s].op = "idle"
          /\ \A x \in RoomSessions : x # s => roomTx'[x] = roomTx[x]
      BY <1>t, <2>3, RoomIdleState
    <2>5. CASE ~MessageAdmitted(t.k, t.seq)
      <3>1. UNCHANGED <<msg, delivery>>
        BY <1>12, <2>1, <2>5 DEF SendCommit
      <3>2. RoomTypeOK'
        BY <1>t, <2>3, <3>1 DEF RoomTypeOK
      <3> QED
        BY <2>4, <3>1, <3>2, RoomQuiet
    <2>6. CASE MessageAdmitted(t.k, t.seq)
      <3>1. PICK k \in MsgKeys, n \in Nat : k = t.k /\ n = t.seq
        BY <2>2
      <3>2. /\ msg' = [msg EXCEPT ![k] = [seq |-> n]]
            /\ delivery' = [delivery EXCEPT ![k] = [a \in Members |-> IF a \in t.to THEN "pending" ELSE "none"]]
        BY <1>12, <2>1, <2>6, <3>1 DEF SendCommit
      <3>3. msg[k].seq = 0 /\ n \notin Numbers
        BY <2>6, <3>1 DEF MessageAdmitted
      <3>4. /\ Cardinality(SentMsgs) \in Nat /\ Numbers = 1..Cardinality(SentMsgs)
            /\ IsFiniteSet(SentMsgs) /\ SequenceGapless
        BY RoomNumbers DEF RoomInv
      <3>5. PICK c \in Nat : c = Cardinality(SentMsgs)
        BY <3>4
      <3>6. n \in 1..(c + 1)
        BY <2>1, <2>2, <3>1, <3>5 DEF RoomInv, NumbersLookedUp
      <3>7. n = c + 1
        BY <3>3, <3>4, <3>5, <3>6
      <3>8. msg' \in [MsgKeys -> MsgRow] /\ msg'[k].seq = n /\ \A j \in MsgKeys : j # k => msg'[j] = msg[j]
        BY <1>t, <3>1, <3>2 DEF MsgRow
      <3>9. n # 0
        BY <3>5, <3>7
      <3>10. SentMsgs' = SentMsgs \cup {k} /\ k \notin SentMsgs
        BY <3>1, <3>3, <3>8, <3>9 DEF SentMsgs
      <3>11. IsFiniteSet(SentMsgs') /\ Cardinality(SentMsgs') = c + 1
        BY <3>4, <3>5, <3>10, FS_AddElement
      <3>12. {msg'[j].seq : j \in SentMsgs'} = {msg[j].seq : j \in SentMsgs} \cup {n}
        <4>1. \A j \in SentMsgs : j # k /\ j \in MsgKeys /\ msg'[j] = msg[j]
          BY <3>8, <3>10 DEF SentMsgs
        <4> QED
          BY <3>8, <3>10, <4>1
      <3>13. {msg[j].seq : j \in SentMsgs} = 1..c
        BY <3>4, <3>5 DEF SequenceGapless, SentMsgs
      <3>14. (1..c) \cup {c + 1} = 1..(c + 1)
        BY <3>5
      <3>15. {msg'[j].seq : j \in SentMsgs'} = 1..(c + 1)
        BY <3>7, <3>12, <3>13, <3>14
      <3>16. SequenceGapless'
        BY <3>11, <3>15 DEF SequenceGapless, SentMsgs
      <3>17. NumbersLookedUp'
        <4> SUFFICES ASSUME NEW x \in RoomSessions, roomTx'[x].op = "insert"
                     PROVE  roomTx'[x].seq \in 1..(Cardinality(SentMsgs') + 1)
          BY DEF NumbersLookedUp
        <4>1. roomTx'[x] = roomTx[x]
          BY <2>4
        <4>2. roomTx[x].seq \in 1..(c + 1)
          BY <3>5, <4>1 DEF RoomInv, NumbersLookedUp
        <4> QED
          BY <3>5, <3>11, <4>1, <4>2
      <3>18. delivery' \in [MsgKeys -> [Members -> {"none", "pending", "delivered", "acknowledged"}]]
        BY <1>t, <3>1, <3>2
      <3>19. RoomTypeOK'
        BY <1>t, <2>3, <3>8, <3>18 DEF RoomTypeOK
      <3> QED
        BY <2>4, <3>11, <3>16, <3>17, <3>19 DEF RoomInv
    <2> QED
      BY <2>5, <2>6
  <1>13. ASSUME NEW s \in RoomSessions, InboxCommit(s) PROVE RoomInv'
    <2>1. PICK t \in RoomTxState : t = roomTx[s]
      BY <1>t
    <2>2. t.op = "inbox" /\ t.a \in Members
      BY <1>13, <2>1, RoomTxFields DEF InboxCommit
    <2>3. /\ roomTx' = [roomTx EXCEPT ![s] = RoomIdle] /\ UNCHANGED <<member, msg>>
          /\ rowLock' \in RoomSessions \cup {NoSession}
      BY <1>t, <1>13 DEF InboxCommit, RoomEnd
    <2>4. delivery' = [k \in MsgKeys |-> IF k \in t.fresh THEN [delivery[k] EXCEPT ![t.a] = "delivered"] ELSE delivery[k]]
      BY <1>13, <2>1 DEF InboxCommit
    <2>5. delivery' \in [MsgKeys -> [Members -> {"none", "pending", "delivered", "acknowledged"}]]
      BY <1>t, <2>2, <2>4
    <2>6. RoomTypeOK'
      BY <1>t, <2>3, <2>5 DEF RoomTypeOK
    <2> QED
      BY <1>t, <2>3, <2>6, RoomIdleState, RoomQuiet
  <1>14. CASE UNCHANGED roomVars
    <2>1. RoomTypeOK'
      BY <1>t, <1>14 DEF roomVars, RoomTypeOK
    <2> QED
      BY <1>t, <1>14, <2>1, RoomQuiet DEF roomVars
  <1> QED
    BY <1>1, <1>2, <1>3, <1>4, <1>5, <1>6, <1>7, <1>8, <1>9, <1>10, <1>11, <1>12, <1>13, <1>14 DEF RoomNext, RoomTool

-----------------------------------------------------------------------------
(* Remote commands (AgentCommands)                                         *)

CmdTxState == {CmdIdle} \cup [op : {"command"}, c : Commands,
                              st : {"delivered", "acknowledged", "accepted"} \cup CmdFinal]

\* A request about to write "accepted" found the approval it needs; one about
\* to finish the command found it accepted.
PendingWrites ==
    \A s \in CmdSessions : cmdTx[s].op = "command" =>
       /\ cmdTx[s].st = "accepted" /\ cmdTx[s].c \in NeedsApproval => rcmd[cmdTx[s].c].approved
       /\ cmdTx[s].st \in {"completed", "failed"} => rcmd[cmdTx[s].c].accepted

CmdInv == CmdTypeOK /\ cmdTx \in [CmdSessions -> CmdTxState] /\ PendingWrites /\ FinishedWasAccepted

(* A command update in flight carries the command and the status it will     *)
(* write.                                                                    *)
LEMMA CmdTxFields ==
  ASSUME NEW t \in CmdTxState, t.op = "command"
  PROVE  t.c \in Commands /\ t.st \in {"delivered", "acknowledged", "accepted"} \cup CmdFinal
  BY DEF CmdTxState, CmdIdle

(* No command exists at first.                                               *)
LEMMA CmdInitInv == CmdInit => CmdInv
  <1> SUFFICES ASSUME CmdInit PROVE CmdInv
    OBVIOUS
  <1>1. CmdTypeOK
    BY DEF CmdInit, CmdTypeOK, CommandRow, CmdFinal
  <1>2. cmdTx \in [CmdSessions -> CmdTxState] /\ \A s \in CmdSessions : cmdTx[s].op = "idle"
    BY DEF CmdInit, CmdIdle, CmdTxState
  <1> QED
    BY <1>1, <1>2 DEF CmdInv, PendingWrites, FinishedWasAccepted, CmdInit

\* A row changes to one that keeps its marks: nothing that was promised of it
\* is lost.
LEMMA CmdStepInv == CmdInv /\ [CmdNext]_cmdVars => CmdInv'
  <1> SUFFICES ASSUME CmdInv, [CmdNext]_cmdVars PROVE CmdInv'
    OBVIOUS
  <1>t. /\ present \subseteq Agents /\ rcmd \in [Commands -> CommandRow]
        /\ cmdTx \in [CmdSessions -> CmdTxState]
    BY DEF CmdInv, CmdTypeOK
  <1>0. PendingWrites /\ FinishedWasAccepted
    BY DEF CmdInv
  <1>r. \A c \in Commands : rcmd[c] \in CommandRow
    BY <1>t
  \* Writing a row that keeps its marks and is sound, with the requests.
  <1>w. ASSUME NEW c \in Commands, NEW row \in CommandRow, rcmd' = [rcmd EXCEPT ![c] = row],
               rcmd[c].approved => row.approved, rcmd[c].accepted => row.accepted,
               row.status \in {"accepted", "completed", "failed"} => row.accepted,
               row.accepted /\ c \in NeedsApproval => row.approved
        PROVE  /\ rcmd' \in [Commands -> CommandRow] /\ FinishedWasAccepted'
               /\ \A d \in Commands : (rcmd[d].approved => rcmd'[d].approved) /\ (rcmd[d].accepted => rcmd'[d].accepted)
    <2>1. rcmd' \in [Commands -> CommandRow] /\ rcmd'[c] = row /\ \A d \in Commands : d # c => rcmd'[d] = rcmd[d]
      BY <1>t, <1>w
    <2>2. FinishedWasAccepted'
      BY <1>0, <1>w, <2>1 DEF FinishedWasAccepted
    <2> QED
      BY <1>w, <2>1, <2>2
  <1>1. ASSUME NEW a \in Agents, MoveAgent(a) PROVE CmdInv'
    BY <1>t, <1>0, <1>1 DEF MoveAgent, CmdInv, CmdTypeOK, PendingWrites, FinishedWasAccepted
  <1>2. ASSUME NEW c \in Commands, NEW a \in Agents, NEW b \in Agents, CommandIssue(c, a, b) PROVE CmdInv'
    <2>1. PICK row : row = [rcmd[c] EXCEPT !.status = "pending"]
      OBVIOUS
    <2>2. /\ row \in CommandRow /\ row.status = "pending" /\ row.approved = rcmd[c].approved
          /\ row.accepted = rcmd[c].accepted
      BY <1>r, <2>1 DEF CommandRow, CmdFinal
    <2>3. rcmd' = [rcmd EXCEPT ![c] = row] /\ UNCHANGED <<present, cmdTx>>
      BY <1>2, <2>1 DEF CommandIssue
    <2>4. rcmd[c].accepted /\ c \in NeedsApproval => rcmd[c].approved
      BY <1>0 DEF FinishedWasAccepted
    <2>5. /\ rcmd' \in [Commands -> CommandRow] /\ FinishedWasAccepted'
          /\ \A d \in Commands : (rcmd[d].approved => rcmd'[d].approved) /\ (rcmd[d].accepted => rcmd'[d].accepted)
      BY <1>w, <2>2, <2>3, <2>4
    <2>6. \A s \in CmdSessions : cmdTx[s].op = "command" => cmdTx[s].c \in Commands
      BY <1>t, CmdTxFields
    <2>7. PendingWrites'
      BY <1>0, <2>3, <2>5, <2>6 DEF PendingWrites
    <2> QED
      BY <1>t, <2>3, <2>5, <2>7 DEF CmdInv, CmdTypeOK
  <1>3. ASSUME NEW c \in Commands, CommandApprove(c) PROVE CmdInv'
    <2>1. PICK row : row = [rcmd[c] EXCEPT !.approved = TRUE]
      OBVIOUS
    <2>2. /\ row \in CommandRow /\ row.status = rcmd[c].status /\ row.approved = TRUE
          /\ row.accepted = rcmd[c].accepted
      BY <1>r, <2>1 DEF CommandRow, CmdFinal
    <2>3. rcmd' = [rcmd EXCEPT ![c] = row] /\ UNCHANGED <<present, cmdTx>>
      BY <1>3, <2>1 DEF CommandApprove
    <2>4. rcmd[c].status \in {"accepted", "completed", "failed"} => rcmd[c].accepted
      BY <1>0 DEF FinishedWasAccepted
    <2>5. /\ rcmd' \in [Commands -> CommandRow] /\ FinishedWasAccepted'
          /\ \A d \in Commands : (rcmd[d].approved => rcmd'[d].approved) /\ (rcmd[d].accepted => rcmd'[d].accepted)
      BY <1>w, <2>2, <2>3, <2>4
    <2>6. \A s \in CmdSessions : cmdTx[s].op = "command" => cmdTx[s].c \in Commands
      BY <1>t, CmdTxFields
    <2>7. PendingWrites'
      BY <1>0, <2>3, <2>5, <2>6 DEF PendingWrites
    <2> QED
      BY <1>t, <2>3, <2>5, <2>7 DEF CmdInv, CmdTypeOK
  <1>4. ASSUME NEW s \in CmdSessions, NEW c \in Commands,
               NEW st \in {"delivered", "acknowledged", "accepted"} \cup CmdFinal, CommandRead(s, c, st)
        PROVE  CmdInv'
    <2>1. PICK t : t = [op |-> "command", c |-> c, st |-> st]
      OBVIOUS
    <2>2. t \in CmdTxState /\ t.op = "command" /\ t.c = c /\ t.st = st
      BY <2>1 DEF CmdTxState
    <2>3. cmdTx' = [cmdTx EXCEPT ![s] = t] /\ UNCHANGED <<present, rcmd>>
      BY <1>4, <2>1 DEF CommandRead, CmdBegin
    <2>4. /\ st = "accepted" /\ c \in NeedsApproval => rcmd[c].approved
          /\ st \in {"completed", "failed"} => rcmd[c].status = "accepted"
      BY <1>4 DEF CommandRead, ExpireStep, DeliverStep, AckStep, AcceptStep, RejectStep, CompleteStep, CancelStep
    <2>5. st \in {"completed", "failed"} => rcmd[c].accepted
      BY <1>0, <2>4 DEF FinishedWasAccepted
    <2>6. /\ cmdTx' \in [CmdSessions -> CmdTxState] /\ cmdTx'[s] = t
          /\ \A x \in CmdSessions : x # s => cmdTx'[x] = cmdTx[x]
      BY <1>t, <2>2, <2>3
    <2>7. PendingWrites'
      BY <1>0, <2>2, <2>3, <2>4, <2>5, <2>6 DEF PendingWrites
    <2>8. FinishedWasAccepted'
      BY <1>0, <2>3 DEF FinishedWasAccepted
    <2> QED
      BY <1>t, <2>3, <2>6, <2>7, <2>8 DEF CmdInv, CmdTypeOK
  <1>5. ASSUME NEW s \in CmdSessions, CommandCommit(s) PROVE CmdInv'
    <2>1. PICK t \in CmdTxState : t = cmdTx[s]
      BY <1>t
    <2>2. t.op = "command" /\ t.c \in Commands /\ t.st \in {"delivered", "acknowledged", "accepted"} \cup CmdFinal
      BY <1>5, <2>1, CmdTxFields DEF CommandCommit
    <2>3. PICK c \in Commands, st \in {"delivered", "acknowledged", "accepted"} \cup CmdFinal : c = t.c /\ st = t.st
      BY <2>2
    <2>4. /\ rcmd' = [rcmd EXCEPT ![c].status = st, ![c].accepted = @ \/ st = "accepted"]
          /\ cmdTx' = [cmdTx EXCEPT ![s] = CmdIdle] /\ UNCHANGED present
      BY <1>5, <2>1, <2>3 DEF CommandCommit, CmdEnd
    <2>5. PICK row : row = rcmd'[c]
      OBVIOUS
    <2>6. PICK b : b = row.accepted
      OBVIOUS
    <2>7. b = (rcmd[c].accepted \/ st = "accepted")
      <3>1. PICK r \in CommandRow : r = rcmd[c]
        BY <1>r
      <3>2. row = [r EXCEPT !.status = st, !.accepted = r.accepted \/ st = "accepted"]
        BY <1>t, <2>4, <2>5, <3>1
      <3>3. row.accepted = (r.accepted \/ st = "accepted")
        BY <3>1, <3>2 DEF CommandRow
      <3> QED
        BY <2>6, <3>1, <3>3
    <2>8. b \in BOOLEAN
      BY <2>7, Zenon
    <2>9. row \in CommandRow /\ row.status = st /\ row.accepted = b /\ row.approved = rcmd[c].approved
      BY <1>t, <1>r, <2>4, <2>5, <2>6, <2>8 DEF CommandRow
    <2>10. rcmd' = [rcmd EXCEPT ![c] = row]
      BY <1>t, <2>4, <2>5
    <2>11. /\ st = "accepted" /\ c \in NeedsApproval => rcmd[c].approved
           /\ st \in {"completed", "failed"} => rcmd[c].accepted
      BY <1>0, <2>1, <2>2, <2>3 DEF PendingWrites
    <2>12. /\ rcmd[c].accepted => b
           /\ st \in {"accepted", "completed", "failed"} => b
      BY <2>7, <2>11, Zenon
    <2>13. b /\ c \in NeedsApproval => rcmd[c].approved
      BY <1>0, <2>7, <2>11 DEF FinishedWasAccepted
    <2>14. /\ rcmd' \in [Commands -> CommandRow] /\ FinishedWasAccepted'
           /\ \A d \in Commands : (rcmd[d].approved => rcmd'[d].approved) /\ (rcmd[d].accepted => rcmd'[d].accepted)
      BY <1>w, <2>9, <2>10, <2>12, <2>13
    <2>15. /\ cmdTx' \in [CmdSessions -> CmdTxState] /\ cmdTx'[s].op = "idle"
           /\ \A x \in CmdSessions : x # s => cmdTx'[x] = cmdTx[x]
      BY <1>t, <2>4 DEF CmdIdle, CmdTxState
    <2>16. \A x \in CmdSessions : cmdTx[x].op = "command" => cmdTx[x].c \in Commands
      BY <1>t, CmdTxFields
    <2>17. PendingWrites'
      BY <1>0, <2>14, <2>15, <2>16 DEF PendingWrites
    <2> QED
      BY <1>t, <2>4, <2>14, <2>15, <2>17 DEF CmdInv, CmdTypeOK
  <1>6. CASE UNCHANGED cmdVars
    BY <1>t, <1>0, <1>6 DEF cmdVars, CmdInv, CmdTypeOK, PendingWrites, FinishedWasAccepted
  <1> QED
    BY <1>1, <1>2, <1>3, <1>4, <1>5, <1>6 DEF CmdNext

-----------------------------------------------------------------------------
(* Work items and assignments (AgentWorkItems)                             *)

BelowMaxVersion == {n \in 0..MaxItemVersion : n < MaxItemVersion}

\* An assignment that is there: of an item and to an agent.
RealAsg == [status : {"proposed", "assigned", "revoked"}, item : Items, who : Workers, gen : Nat,
            ver : BelowMaxVersion, forced : BOOLEAN]

WorkTxState ==
    {WorkIdle}
    \cup [op : {"claim"}, a : Workers, i : Items, ver : BelowMaxVersion]
    \cup [op : {"update"}, a : Workers, i : Items, st : {"in_progress", "completed", "failed"}, ver : BelowMaxVersion]
    \cup [op : {"propose"}, i : Items, a : Workers, gen : Nat, ver : BelowMaxVersion, auto : BOOLEAN]
    \cup [op : {"apply"}, x : Assignments]
    \cup [op : {"applying"}, x : Assignments, row : RealAsg]
    \cup [op : {"revoke"}, x : Assignments, was : {"proposed", "assigned", "revoked"},
          row : {r \in ItemRow : r.ver < MaxItemVersion}, own : WorkerRow]

\* A completed item is remembered as such; an item not yet created is nobody's.
DoneRemembered ==
    \A i \in Items : /\ item[i].status = "completed" => i \in everDone
                     /\ item[i].status = "absent" => item[i].who = NoWorker

\* What a session is about to start had its dependencies completed when it
\* looked; the assignment it is about to write over is there.
StartsAllowed ==
    \A s \in WorkSessions :
       /\ workTx[s].op = "claim" => ItemDeps[workTx[s].i] \subseteq everDone
       /\ workTx[s].op = "applying" => /\ ItemDeps[workTx[s].row.item] \subseteq everDone
                                       /\ ~workTx[s].row.forced => asg[workTx[s].x] \in RealAsg
       /\ workTx[s].op = "revoke" => asg[workTx[s].x] \in RealAsg

WorkInv ==
    /\ WorkTypeOK /\ asg \in [Assignments -> {NoAsg} \cup RealAsg]
    /\ workTx \in [WorkSessions -> WorkTxState]
    /\ DoneRemembered /\ StartsAllowed /\ OpenIffUnassigned /\ StartedAfterDependencies

(* What each call on work items has read when it commits.                    *)
LEMMA WorkTxFields ==
  ASSUME NEW t \in WorkTxState
  PROVE  /\ t.op = "claim" => t.a \in Workers /\ t.i \in Items /\ t.ver \in BelowMaxVersion
         /\ t.op = "update" => /\ t.a \in Workers /\ t.i \in Items /\ t.st \in {"in_progress", "completed", "failed"}
                               /\ t.ver \in BelowMaxVersion
         /\ t.op = "propose" => /\ t.i \in Items /\ t.a \in Workers /\ t.gen \in Nat /\ t.ver \in BelowMaxVersion
                                /\ t.auto \in BOOLEAN
         /\ t.op = "apply" => t.x \in Assignments
         /\ t.op = "applying" => t.x \in Assignments /\ t.row \in RealAsg
         /\ t.op = "revoke" => /\ t.x \in Assignments /\ t.was \in {"proposed", "assigned", "revoked"}
                               /\ t.row \in ItemRow /\ t.row.ver < MaxItemVersion /\ t.own \in WorkerRow
  BY DEF WorkTxState, WorkIdle

(* The idle session is one of the session states.                            *)
LEMMA WorkIdleState == WorkIdle \in WorkTxState /\ WorkIdle.op = "idle"
  BY DEF WorkTxState, WorkIdle

(* An assignment row that exists differs from the missing row.               *)
LEMMA RealAsgRow == RealAsg \subseteq AsgRow /\ NoAsg \in AsgRow /\ NoAsg \notin RealAsg
  <1>1. ASSUME NEW r \in RealAsg PROVE r \in AsgRow
    BY <1>1 DEF RealAsg, AsgRow, BelowMaxVersion
  <1>2. NoAsg \in AsgRow
    BY DEF NoAsg, AsgRow
  <1>3. NoAsg \notin RealAsg
    BY DEF NoAsg, RealAsg
  <1> QED
    BY <1>1, <1>2, <1>3

(* Open items without assignments satisfy the invariant.                     *)
LEMMA WorkInitInv == WorkInit => WorkInv
  <1> SUFFICES ASSUME WorkInit PROVE WorkInv
    OBVIOUS
  <1>1. item \in [Items -> ItemRow] /\ \A i \in Items : item[i].status = "absent" /\ item[i].who = NoWorker
    BY WorkItemsAssumption DEF WorkInit, ItemRow
  <1>2. worker \in [Workers -> WorkerRow]
    BY DEF WorkInit, WorkerRow
  <1>3. asg \in [Assignments -> AsgRow] /\ asg \in [Assignments -> {NoAsg} \cup RealAsg]
    BY RealAsgRow DEF WorkInit
  <1>4. polGen \in 1..MaxPolicyGen /\ everDone \subseteq Items
    BY WorkItemsAssumption DEF WorkInit
  <1>5. workTx \in [WorkSessions -> WorkTxState] /\ \A s \in WorkSessions : workTx[s].op = "idle"
    BY WorkIdleState DEF WorkInit
  <1>6. DoneRemembered /\ OpenIffUnassigned /\ StartedAfterDependencies
    BY <1>1 DEF DoneRemembered, OpenIffUnassigned, StartedAfterDependencies
  <1>7. StartsAllowed
    BY <1>5 DEF StartsAllowed
  <1> QED
    BY <1>1, <1>2, <1>3, <1>4, <1>5, <1>6, <1>7 DEF WorkInv, WorkTypeOK

\* The parts of a step: what sessions hold, and the items.
LEMMA WorkSessionMoves ==
  ASSUME WorkInv, NEW s \in WorkSessions, NEW t \in WorkTxState, workTx' = [workTx EXCEPT ![s] = t],
         everDone \subseteq everDone', asg' \in [Assignments -> {NoAsg} \cup RealAsg],
         \A x \in Assignments : asg[x] \in RealAsg => asg'[x] \in RealAsg,
         t.op = "claim" => ItemDeps[t.i] \subseteq everDone,
         t.op = "applying" => ItemDeps[t.row.item] \subseteq everDone /\ (~t.row.forced => asg[t.x] \in RealAsg),
         t.op = "revoke" => asg[t.x] \in RealAsg
  PROVE  workTx' \in [WorkSessions -> WorkTxState] /\ StartsAllowed'
  <1>1. workTx \in [WorkSessions -> WorkTxState] /\ StartsAllowed
    BY DEF WorkInv
  <1>2. /\ workTx' \in [WorkSessions -> WorkTxState] /\ workTx'[s] = t
        /\ \A y \in WorkSessions : y # s => workTx'[y] = workTx[y]
    BY <1>1
  <1> SUFFICES ASSUME NEW y \in WorkSessions
               PROVE  /\ workTx'[y].op = "claim" => ItemDeps[workTx'[y].i] \subseteq everDone'
                      /\ workTx'[y].op = "applying" => /\ ItemDeps[workTx'[y].row.item] \subseteq everDone'
                                                       /\ ~workTx'[y].row.forced => asg'[workTx'[y].x] \in RealAsg
                      /\ workTx'[y].op = "revoke" => asg'[workTx'[y].x] \in RealAsg
    BY <1>2 DEF StartsAllowed
  <1>3. PICK u \in WorkTxState : u = workTx'[y]
    BY <1>2
  <1>4. /\ u.op = "claim" => ItemDeps[u.i] \subseteq everDone
        /\ u.op = "applying" => ItemDeps[u.row.item] \subseteq everDone /\ (~u.row.forced => asg[u.x] \in RealAsg)
        /\ u.op = "revoke" => asg[u.x] \in RealAsg
    <2>1. CASE y = s
      BY <1>2, <1>3, <2>1
    <2>2. CASE y # s
      BY <1>1, <1>2, <1>3, <2>2 DEF StartsAllowed
    <2> QED
      BY <2>1, <2>2
  <1>5. u.op \in {"applying", "revoke"} => u.x \in Assignments
    BY <1>3, WorkTxFields
  <1> QED
    BY <1>3, <1>4, <1>5

\* An item changes to a row that is sound.
LEMMA WorkItemMoves ==
  ASSUME WorkInv, NEW i \in Items, NEW row \in ItemRow, item' = [item EXCEPT ![i] = row],
         everDone \subseteq everDone', everDone' \subseteq Items,
         row.status # "absent", row.status = "open" <=> row.who = NoWorker,
         row.status = "completed" => i \in everDone',
         row.status # "open" => ItemDeps[i] \subseteq everDone'
  PROVE  /\ item' \in [Items -> ItemRow] /\ DoneRemembered' /\ OpenIffUnassigned' /\ StartedAfterDependencies'
  <1>1. item \in [Items -> ItemRow]
    BY DEF WorkInv, WorkTypeOK
  <1>2. item' \in [Items -> ItemRow] /\ item'[i] = row /\ \A j \in Items : j # i => item'[j] = item[j]
    BY <1>1
  <1>3. DoneRemembered'
    BY <1>2 DEF WorkInv, DoneRemembered
  <1>4. OpenIffUnassigned'
    BY <1>2 DEF WorkInv, OpenIffUnassigned
  <1>5. StartedAfterDependencies'
    BY <1>2 DEF WorkInv, StartedAfterDependencies
  <1> QED
    BY <1>2, <1>3, <1>4, <1>5

(* Every read and every commit on items and assignments keeps the invariant. *)
LEMMA WorkStepInv == WorkInv /\ [WorkNext]_workVars => WorkInv'
  <1> SUFFICES ASSUME WorkInv, [WorkNext]_workVars PROVE WorkInv'
    OBVIOUS
  <1>t. /\ item \in [Items -> ItemRow] /\ worker \in [Workers -> WorkerRow]
        /\ asg \in [Assignments -> {NoAsg} \cup RealAsg] /\ asg \in [Assignments -> AsgRow]
        /\ polGen \in 1..MaxPolicyGen /\ everDone \subseteq Items
        /\ workTx \in [WorkSessions -> WorkTxState]
    BY DEF WorkInv, WorkTypeOK
  <1>0. DoneRemembered /\ StartsAllowed /\ OpenIffUnassigned /\ StartedAfterDependencies
    BY DEF WorkInv
  \* Dependencies that are ready have all been completed.
  <1>d. \A i \in Items : DependenciesReady(i) => ItemDeps[i] \subseteq everDone
    BY <1>0, WorkItemsAssumption DEF DependenciesReady, DoneRemembered
  <1>g. \A i \in Items : Growing(i) => item[i].ver \in BelowMaxVersion
    BY <1>t DEF Growing, ItemRow, BelowMaxVersion
  <1>p. \A n \in BelowMaxVersion : n + 1 \in 0..MaxItemVersion
    BY WorkItemsAssumption DEF BelowMaxVersion
  \* A step that only moves a session.
  <1>m. ASSUME NEW s \in WorkSessions, NEW t \in WorkTxState, workTx' = [workTx EXCEPT ![s] = t],
               UNCHANGED <<item, worker, asg, polGen, everDone>>,
               t.op = "claim" => ItemDeps[t.i] \subseteq everDone,
               t.op = "applying" => ItemDeps[t.row.item] \subseteq everDone /\ (~t.row.forced => asg[t.x] \in RealAsg),
               t.op = "revoke" => asg[t.x] \in RealAsg
        PROVE  WorkInv'
    <2>1. workTx' \in [WorkSessions -> WorkTxState] /\ StartsAllowed'
      BY <1>t, <1>m, WorkSessionMoves
    <2>2. WorkTypeOK'
      BY <1>t, <1>m DEF WorkTypeOK
    <2>3. DoneRemembered' /\ OpenIffUnassigned' /\ StartedAfterDependencies'
      BY <1>0, <1>m DEF DoneRemembered, OpenIffUnassigned, StartedAfterDependencies
    <2> QED
      BY <1>t, <1>m, <2>1, <2>2, <2>3 DEF WorkInv
  <1>1. ASSUME NEW i \in Items, CreateWorkItem(i) PROVE WorkInv'
    <2>1. PICK row : row = [item[i] EXCEPT !.status = "open", !.ver = 1]
      OBVIOUS
    <2>2. item[i].who = NoWorker /\ item[i] \in ItemRow
      BY <1>t, <1>0, <1>1 DEF CreateWorkItem, DoneRemembered
    <2>a. 1 \in 0..MaxItemVersion
      BY WorkItemsAssumption
    <2>b. PICK old \in ItemRow : old = item[i]
      BY <2>2
    <2>c. row = [old EXCEPT !.status = "open", !.ver = 1] /\ old.who = NoWorker
      BY <2>1, <2>2, <2>b
    <2>3. row \in ItemRow /\ row.status = "open" /\ row.who = NoWorker
      BY <2>a, <2>b, <2>c DEF ItemRow
    <2>4. item' = [item EXCEPT ![i] = row] /\ UNCHANGED <<worker, asg, polGen, workTx, everDone>>
      BY <1>1, <2>1 DEF CreateWorkItem
    <2>5. item' \in [Items -> ItemRow] /\ DoneRemembered' /\ OpenIffUnassigned' /\ StartedAfterDependencies'
      BY <1>t, <2>3, <2>4, WorkItemMoves
    <2>6. StartsAllowed'
      BY <1>0, <2>4 DEF StartsAllowed
    <2> QED
      BY <1>t, <2>4, <2>5, <2>6 DEF WorkInv, WorkTypeOK
  <1>2. ASSUME NEW a \in Workers, NEW r \in AgentStates, AgentReport(a, r[1], r[2]) PROVE WorkInv'
    <2>1. r[1] \in {"active", "busy", "idle", "offline"} /\ r[2] \in BOOLEAN
      BY WorkItemsAssumption
    <2>2. PICK st \in {"active", "busy", "idle", "offline"}, b \in BOOLEAN : st = r[1] /\ b = r[2]
      BY <2>1
    <2>3. PICK row : row = [worker[a] EXCEPT !.status = st, !.room = b]
      OBVIOUS
    <2>4. row \in WorkerRow
      BY <1>t, <2>2, <2>3 DEF WorkerRow
    <2>5. worker' = [worker EXCEPT ![a] = row] /\ UNCHANGED <<item, asg, polGen, workTx, everDone>>
      BY <1>2, <2>2, <2>3 DEF AgentReport
    <2>6. worker' \in [Workers -> WorkerRow]
      BY <1>t, <2>4, <2>5
    <2> QED
      BY <1>t, <1>0, <2>5, <2>6 DEF WorkInv, WorkTypeOK, DoneRemembered, StartsAllowed, OpenIffUnassigned, StartedAfterDependencies
  <1>3. ASSUME NEW s \in WorkSessions, NEW a \in Workers, NEW i \in Items, ClaimRead(s, a, i) PROVE WorkInv'
    <2>1. PICK t : t = [op |-> "claim", a |-> a, i |-> i, ver |-> item[i].ver]
      OBVIOUS
    <2>2. item[i].ver \in BelowMaxVersion /\ ItemDeps[i] \subseteq everDone
      BY <1>d, <1>g, <1>3 DEF ClaimRead
    <2>3. t \in WorkTxState /\ t.op = "claim" /\ t.i = i
      BY <2>1, <2>2 DEF WorkTxState
    <2>4. workTx' = [workTx EXCEPT ![s] = t] /\ UNCHANGED <<item, worker, asg, polGen, everDone>>
      BY <1>3, <2>1 DEF ClaimRead, WorkBegin
    <2> QED
      BY <1>m, <2>2, <2>3, <2>4
  <1>4. ASSUME NEW s \in WorkSessions, NEW a \in Workers, NEW i \in Items, NEW st \in {"in_progress", "completed", "failed"},
               UpdateRead(s, a, i, st)
        PROVE  WorkInv'
    <2>1. PICK t : t = [op |-> "update", a |-> a, i |-> i, st |-> st, ver |-> item[i].ver]
      OBVIOUS
    <2>2. item[i].ver \in BelowMaxVersion
      BY <1>g, <1>4 DEF UpdateRead
    <2>3. t \in WorkTxState /\ t.op = "update"
      BY <2>1, <2>2 DEF WorkTxState
    <2>4. workTx' = [workTx EXCEPT ![s] = t] /\ UNCHANGED <<item, worker, asg, polGen, everDone>>
      BY <1>4, <2>1 DEF UpdateRead, WorkBegin
    <2> QED
      BY <1>m, <2>3, <2>4
  <1>5. ASSUME NEW s \in WorkSessions, NEW a \in Workers, NEW i \in Items, NEW auto \in BOOLEAN, ProposeRead(s, i, a, auto)
        PROVE  WorkInv'
    <2>1. PICK t : t = [op |-> "propose", i |-> i, a |-> a, gen |-> polGen, ver |-> item[i].ver, auto |-> auto]
      OBVIOUS
    <2>2. item[i].ver \in BelowMaxVersion /\ polGen \in Nat
      BY <1>t, <1>g, <1>5 DEF ProposeRead
    <2>3. t \in WorkTxState /\ t.op = "propose"
      BY <2>1, <2>2 DEF WorkTxState
    <2>4. workTx' = [workTx EXCEPT ![s] = t] /\ UNCHANGED <<item, worker, asg, polGen, everDone>>
      BY <1>5, <2>1 DEF ProposeRead, WorkBegin
    <2> QED
      BY <1>m, <2>3, <2>4
  <1>6. ASSUME NEW s \in WorkSessions, NEW x \in Assignments, NEW i \in Items, NEW a \in Workers, ForceRead(s, x, i, a)
        PROVE  WorkInv'
    <2>1. PICK row : row = [status |-> "proposed", item |-> i, who |-> a, gen |-> polGen, ver |-> item[i].ver, forced |-> TRUE]
      OBVIOUS
    <2>2. item[i].ver \in BelowMaxVersion /\ polGen \in Nat
      BY <1>t, <1>g, <1>6 DEF ForceRead
    <2>3. row \in RealAsg /\ row.item = i /\ row.forced = TRUE
      BY <2>1, <2>2 DEF RealAsg
    <2>4. Applicable(row)
      BY <1>6, <2>1 DEF ForceRead
    <2>5. ItemDeps[i] \subseteq everDone
      BY <1>d, <2>3, <2>4 DEF Applicable
    <2>6. PICK t : t = [op |-> "applying", x |-> x, row |-> row]
      OBVIOUS
    <2>7. t \in WorkTxState /\ t.op = "applying" /\ t.row = row
      BY <2>3, <2>6 DEF WorkTxState
    <2>8. workTx' = [workTx EXCEPT ![s] = t] /\ UNCHANGED <<item, worker, asg, polGen, everDone>>
      BY <1>6, <2>1, <2>6 DEF ForceRead, WorkBegin
    <2> QED
      BY <1>m, <2>3, <2>5, <2>7, <2>8
  <1>7. ASSUME NEW s \in WorkSessions, NEW x \in Assignments, ProposeCommit(s, x) PROVE WorkInv'
    <2>1. PICK t \in WorkTxState : t = workTx[s]
      BY <1>t
    <2>2. /\ t.op = "propose" /\ t.i \in Items /\ t.a \in Workers /\ t.gen \in Nat /\ t.ver \in BelowMaxVersion
      BY <1>7, <2>1, WorkTxFields DEF ProposeCommit
    <2>3. UNCHANGED <<item, worker, polGen, everDone>>
      BY <1>7 DEF ProposeCommit
    <2>4. CASE asg' = asg /\ WorkEnd(s)
      BY <1>m, <2>3, <2>4, WorkIdleState DEF WorkEnd
    <2>5. CASE /\ asg' = [asg EXCEPT ![x] = [status |-> "proposed", item |-> t.i, who |-> t.a,
                                             gen |-> t.gen, ver |-> t.ver, forced |-> FALSE]]
               /\ workTx' = [workTx EXCEPT ![s] = IF t.auto THEN [op |-> "apply", x |-> x] ELSE WorkIdle]
      <3>1. PICK row : row = [status |-> "proposed", item |-> t.i, who |-> t.a, gen |-> t.gen, ver |-> t.ver, forced |-> FALSE]
        OBVIOUS
      <3>2. row \in RealAsg
        BY <2>2, <3>1 DEF RealAsg
      <3>3. /\ asg' \in [Assignments -> {NoAsg} \cup RealAsg]
            /\ \A y \in Assignments : asg[y] \in RealAsg => asg'[y] \in RealAsg
        BY <1>t, <2>5, <3>1, <3>2
      <3>4. PICK u : u = IF t.auto THEN [op |-> "apply", x |-> x] ELSE WorkIdle
        OBVIOUS
      <3>5. u \in WorkTxState /\ u.op \in {"apply", "idle"}
        BY <3>4, WorkIdleState DEF WorkTxState
      <3>6. workTx' \in [WorkSessions -> WorkTxState] /\ StartsAllowed'
        BY <2>3, <2>5, <3>3, <3>4, <3>5, WorkSessionMoves
      <3>7. asg' \in [Assignments -> AsgRow]
        BY <3>3, RealAsgRow
      <3> QED
        BY <1>t, <1>0, <2>3, <3>3, <3>6, <3>7
        DEF WorkInv, WorkTypeOK, DoneRemembered, OpenIffUnassigned, StartedAfterDependencies
    <2> QED
      BY <1>7, <2>1, <2>4, <2>5 DEF ProposeCommit
  <1>8. ASSUME NEW s \in WorkSessions, NEW x \in Assignments, ApplyRequest(s, x) PROVE WorkInv'
    <2>1. PICK t : t = [op |-> "apply", x |-> x]
      OBVIOUS
    <2>2. t \in WorkTxState /\ t.op = "apply"
      BY <2>1 DEF WorkTxState
    <2>3. workTx' = [workTx EXCEPT ![s] = t] /\ UNCHANGED <<item, worker, asg, polGen, everDone>>
      BY <1>8, <2>1 DEF ApplyRequest, WorkBegin
    <2> QED
      BY <1>m, <2>2, <2>3
  <1>9. ASSUME NEW s \in WorkSessions, NEW x \in Assignments, RevokeRead(s, x) PROVE WorkInv'
    <2>1. asg[x] \in RealAsg
      BY <1>t, <1>9 DEF RevokeRead
    <2>2. asg[x].item \in Items /\ asg[x].who \in Workers /\ asg[x].status \in {"proposed", "assigned", "revoked"}
      BY <2>1 DEF RealAsg
    <2>3. item[asg[x].item] \in ItemRow /\ item[asg[x].item].ver < MaxItemVersion /\ worker[asg[x].who] \in WorkerRow
      BY <1>t, <1>9, <2>2 DEF RevokeRead, Growing
    <2>4. PICK t : t = [op |-> "revoke", x |-> x, was |-> asg[x].status, row |-> item[asg[x].item], own |-> worker[asg[x].who]]
      OBVIOUS
    <2>5. t \in WorkTxState /\ t.op = "revoke" /\ t.x = x
      BY <2>2, <2>3, <2>4 DEF WorkTxState
    <2>6. workTx' = [workTx EXCEPT ![s] = t] /\ UNCHANGED <<item, worker, asg, polGen, everDone>>
      BY <1>9, <2>4 DEF RevokeRead, WorkBegin
    <2> QED
      BY <1>m, <2>1, <2>5, <2>6
  \* The UPDATE that claim and apply make.
  <1>k. ASSUME NEW i \in Items, NEW a \in Workers, NEW v \in BelowMaxVersion, TakeItem(i, a, v),
               ItemDeps[i] \subseteq everDone, everDone' = everDone
        PROVE  /\ item' \in [Items -> ItemRow] /\ DoneRemembered' /\ OpenIffUnassigned' /\ StartedAfterDependencies'
               /\ worker' \in [Workers -> WorkerRow]
    <2>1. PICK row : row = [status |-> "in_progress", who |-> a, ver |-> v + 1]
      OBVIOUS
    <2>2. row \in ItemRow /\ row.status = "in_progress" /\ row.who = a
      BY <1>k, <1>p, <2>1 DEF ItemRow
    <2>3. a # NoWorker
      BY WorkItemsAssumption
    <2>4. item' = [item EXCEPT ![i] = row]
      BY <1>k, <2>1 DEF TakeItem
    <2>5. item' \in [Items -> ItemRow] /\ DoneRemembered' /\ OpenIffUnassigned' /\ StartedAfterDependencies'
      BY <1>t, <1>k, <2>2, <2>3, <2>4, WorkItemMoves
    <2>6. PICK w : w = [worker[a] EXCEPT !.item = i, !.status = "busy"]
      OBVIOUS
    <2>7. w \in WorkerRow
      BY <1>t, <2>6 DEF WorkerRow
    <2>8. worker' = [worker EXCEPT ![a] = w]
      BY <1>k, <2>6 DEF TakeItem
    <2> QED
      BY <1>t, <2>5, <2>7, <2>8
  <1>10. ASSUME NEW s \in WorkSessions, ClaimCommit(s) PROVE WorkInv'
    <2>1. PICK t \in WorkTxState : t = workTx[s]
      BY <1>t
    <2>2. t.op = "claim" /\ t.a \in Workers /\ t.i \in Items /\ t.ver \in BelowMaxVersion
      BY <1>10, <2>1, WorkTxFields DEF ClaimCommit
    <2>3. workTx' = [workTx EXCEPT ![s] = WorkIdle] /\ UNCHANGED <<asg, polGen, everDone>>
      BY <1>10 DEF ClaimCommit, WorkEnd
    <2>4. CASE UNCHANGED <<item, worker>>
      BY <1>m, <2>3, <2>4, WorkIdleState
    <2>5. CASE TakeItem(t.i, t.a, t.ver)
      <3>1. ItemDeps[t.i] \subseteq everDone
        BY <1>0, <2>1, <2>2 DEF StartsAllowed
      <3>2. /\ item' \in [Items -> ItemRow] /\ DoneRemembered' /\ OpenIffUnassigned' /\ StartedAfterDependencies'
            /\ worker' \in [Workers -> WorkerRow]
        BY <1>k, <2>2, <2>3, <2>5, <3>1
      <3>3. workTx' \in [WorkSessions -> WorkTxState] /\ StartsAllowed'
        BY <1>t, <2>3, WorkIdleState, WorkSessionMoves
      <3> QED
        BY <1>t, <2>3, <3>2, <3>3 DEF WorkInv, WorkTypeOK
    <2> QED
      BY <1>10, <2>1, <2>4, <2>5 DEF ClaimCommit
  <1>11. ASSUME NEW s \in WorkSessions, UpdateCommit(s) PROVE WorkInv'
    <2>1. PICK t \in WorkTxState : t = workTx[s]
      BY <1>t
    <2>2. /\ t.op = "update" /\ t.a \in Workers /\ t.i \in Items /\ t.st \in {"in_progress", "completed", "failed"}
          /\ t.ver \in BelowMaxVersion
      BY <1>11, <2>1, WorkTxFields DEF UpdateCommit
    <2>3. workTx' = [workTx EXCEPT ![s] = WorkIdle] /\ UNCHANGED <<asg, polGen>>
      BY <1>11 DEF UpdateCommit, WorkEnd
    <2>4. CASE ~(item[t.i].who = t.a /\ item[t.i].ver = t.ver)
      <3>1. UNCHANGED <<item, worker, everDone>>
        BY <1>11, <2>1, <2>4 DEF UpdateCommit
      <3> QED
        BY <1>m, <2>3, <3>1, WorkIdleState
    <2>5. CASE item[t.i].who = t.a /\ item[t.i].ver = t.ver
      <3>1. PICK i \in Items, a \in Workers, st \in {"in_progress", "completed", "failed"}, v \in BelowMaxVersion :
              i = t.i /\ a = t.a /\ st = t.st /\ v = t.ver
        BY <2>2
      <3>2. /\ item' = [item EXCEPT ![i] = [@ EXCEPT !.status = st, !.ver = v + 1]]
            /\ worker' = IF st \notin ItemFinal THEN worker
                         ELSE [worker EXCEPT ![a] = [@ EXCEPT !.item = NoItem, !.status = "active"]]
            /\ everDone' = IF st = "completed" THEN everDone \cup {i} ELSE everDone
        BY <1>11, <2>1, <2>5, <3>1 DEF UpdateCommit
      <3>3. PICK row : row = [item[i] EXCEPT !.status = st, !.ver = v + 1]
        OBVIOUS
      <3>4. item[i] \in ItemRow /\ v + 1 \in 0..MaxItemVersion /\ item[i].who = a /\ a # NoWorker
        BY <1>t, <1>p, <2>5, <3>1, WorkItemsAssumption
      <3>5. row \in ItemRow /\ row.status = st /\ row.who = a
        BY <3>1, <3>3, <3>4 DEF ItemRow, ItemFinal
      <3>6. ItemDeps[i] \subseteq everDone
        BY <1>0, <3>1, <3>4 DEF DoneRemembered, OpenIffUnassigned, StartedAfterDependencies
      <3>7. everDone \subseteq everDone' /\ everDone' \subseteq Items /\ (st = "completed" => i \in everDone')
        BY <1>t, <3>1, <3>2
      <3>8. item' \in [Items -> ItemRow] /\ DoneRemembered' /\ OpenIffUnassigned' /\ StartedAfterDependencies'
        <4>1. item' = [item EXCEPT ![i] = row]
          BY <3>2, <3>3
        <4>2. ItemDeps[i] \subseteq everDone'
          BY <3>6, <3>7
        <4>3. row.status # "absent" /\ row.status # "open" /\ row.who # NoWorker
          BY <3>1, <3>4, <3>5
        <4> QED
          BY <3>1, <3>5, <3>7, <4>1, <4>2, <4>3, WorkItemMoves
      <3>9. worker' \in [Workers -> WorkerRow]
        <4>1. PICK w : w = [worker[a] EXCEPT !.item = NoItem, !.status = "active"]
          OBVIOUS
        <4>2. w \in WorkerRow
          BY <1>t, <3>1, <4>1 DEF WorkerRow
        <4>3. worker' = worker \/ worker' = [worker EXCEPT ![a] = w]
          BY <3>2, <4>1
        <4> QED
          BY <1>t, <4>2, <4>3
      <3>10. workTx' \in [WorkSessions -> WorkTxState] /\ StartsAllowed'
        BY <1>t, <2>3, <3>7, WorkIdleState, WorkSessionMoves
      <3> QED
        BY <1>t, <2>3, <3>7, <3>8, <3>9, <3>10 DEF WorkInv, WorkTypeOK
    <2> QED
      BY <2>4, <2>5
  <1>12. ASSUME NEW s \in WorkSessions, ApplyRead(s) PROVE WorkInv'
    <2>1. PICK t \in WorkTxState : t = workTx[s]
      BY <1>t
    <2>2. t.op = "apply" /\ t.x \in Assignments
      BY <1>12, <2>1, WorkTxFields DEF ApplyRead
    <2>3. UNCHANGED <<item, worker, asg, polGen, everDone>>
      BY <1>12 DEF ApplyRead
    <2>4. CASE ~Applicable(asg[t.x])
      <3>1. workTx' = [workTx EXCEPT ![s] = WorkIdle]
        BY <1>12, <2>1, <2>4 DEF ApplyRead
      <3> QED
        BY <1>m, <2>3, <3>1, WorkIdleState
    <2>5. CASE Applicable(asg[t.x])
      <3>1. asg[t.x].status = "proposed" /\ NoAsg.status = "absent"
        BY <2>5 DEF Applicable, NoAsg
      <3>2. PICK r \in RealAsg : r = asg[t.x]
        BY <1>t, <2>2, <3>1
      <3>3. ItemDeps[r.item] \subseteq everDone
        <4>1. r.item \in Items
          BY <3>2 DEF RealAsg
        <4> QED
          BY <1>d, <2>5, <3>2, <4>1 DEF Applicable
      <3>4. PICK u : u = [op |-> "applying", x |-> t.x, row |-> r]
        OBVIOUS
      <3>5. u \in WorkTxState /\ u.op = "applying" /\ u.row = r /\ u.x = t.x
        BY <2>2, <3>2, <3>4 DEF WorkTxState
      <3>6. workTx' = [workTx EXCEPT ![s] = u]
        BY <1>12, <2>1, <2>5, <3>2, <3>4 DEF ApplyRead
      <3> QED
        BY <1>m, <2>3, <3>2, <3>3, <3>5, <3>6
    <2> QED
      BY <2>4, <2>5
  <1>13. ASSUME NEW s \in WorkSessions, ApplyCommit(s) PROVE WorkInv'
    <2>1. PICK t \in WorkTxState : t = workTx[s]
      BY <1>t
    <2>2. t.op = "applying" /\ t.x \in Assignments /\ t.row \in RealAsg
      BY <1>13, <2>1, WorkTxFields DEF ApplyCommit
    <2>3. workTx' = [workTx EXCEPT ![s] = WorkIdle] /\ UNCHANGED <<polGen, everDone>>
      BY <1>13 DEF ApplyCommit, WorkEnd
    <2>4. CASE UNCHANGED <<item, worker, asg>>
      BY <1>m, <2>3, <2>4, WorkIdleState
    <2>5. CASE /\ TakeItem(t.row.item, t.row.who, t.row.ver)
               /\ asg' = [asg EXCEPT ![t.x] = IF t.row.forced THEN [t.row EXCEPT !.status = "assigned"]
                                              ELSE [@ EXCEPT !.status = "assigned"]]
      <3>1. PICK r \in RealAsg, x \in Assignments : r = t.row /\ x = t.x
        BY <2>2
      <3>2. /\ ItemDeps[r.item] \subseteq everDone /\ (~r.forced => asg[x] \in RealAsg)
        BY <1>0, <2>1, <2>2, <3>1 DEF StartsAllowed
      <3>3. r.item \in Items /\ r.who \in Workers /\ r.ver \in BelowMaxVersion
        BY <3>1 DEF RealAsg
      <3>4. /\ item' \in [Items -> ItemRow] /\ DoneRemembered' /\ OpenIffUnassigned' /\ StartedAfterDependencies'
            /\ worker' \in [Workers -> WorkerRow]
        BY <1>k, <2>3, <2>5, <3>1, <3>2, <3>3
      <3>5. PICK n : n = IF r.forced THEN [r EXCEPT !.status = "assigned"] ELSE [asg[x] EXCEPT !.status = "assigned"]
        OBVIOUS
      <3>6. n \in RealAsg
        <4>1. CASE r.forced
          BY <3>1, <3>5, <4>1 DEF RealAsg
        <4>2. CASE ~r.forced
          BY <3>2, <3>5, <4>2 DEF RealAsg
        <4> QED
          BY <4>1, <4>2
      <3>7. asg' = [asg EXCEPT ![x] = n]
        BY <2>5, <3>1, <3>5
      <3>8. /\ asg' \in [Assignments -> {NoAsg} \cup RealAsg]
            /\ \A y \in Assignments : asg[y] \in RealAsg => asg'[y] \in RealAsg
        BY <1>t, <3>1, <3>6, <3>7
      <3>9. workTx' \in [WorkSessions -> WorkTxState] /\ StartsAllowed'
        BY <2>3, <3>8, WorkIdleState, WorkSessionMoves
      <3>10. asg' \in [Assignments -> AsgRow]
        BY <3>8, RealAsgRow
      <3> QED
        BY <1>t, <2>3, <3>4, <3>8, <3>9, <3>10 DEF WorkInv, WorkTypeOK
    <2> QED
      BY <1>13, <2>1, <2>4, <2>5 DEF ApplyCommit
  <1>14. ASSUME NEW s \in WorkSessions, RevokeCommit(s) PROVE WorkInv'
    <2>1. PICK t \in WorkTxState : t = workTx[s]
      BY <1>t
    <2>2. /\ t.op = "revoke" /\ t.x \in Assignments /\ t.was \in {"proposed", "assigned", "revoked"}
          /\ t.row \in ItemRow /\ t.row.ver < MaxItemVersion /\ t.own \in WorkerRow
      BY <1>14, <2>1, WorkTxFields DEF RevokeCommit
    <2>3. PICK x \in Assignments, old \in RealAsg : x = t.x /\ old = asg[x]
      BY <1>0, <2>1, <2>2 DEF StartsAllowed
    <2>4. PICK i \in Items, a \in Workers : i = old.item /\ a = old.who
      BY <2>3 DEF RealAsg
    <2>5. workTx' = [workTx EXCEPT ![s] = WorkIdle] /\ UNCHANGED <<polGen, everDone>>
      BY <1>14 DEF RevokeCommit, WorkEnd
    <2>6. asg' = IF t.was = "revoked" THEN asg ELSE [asg EXCEPT ![x].status = "revoked"]
      BY <1>14, <2>1, <2>3 DEF RevokeCommit
    <2>7. /\ asg' \in [Assignments -> {NoAsg} \cup RealAsg]
          /\ \A y \in Assignments : asg[y] \in RealAsg => asg'[y] \in RealAsg
      <3>1. PICK n : n = [old EXCEPT !.status = "revoked"]
        OBVIOUS
      <3>2. n \in RealAsg
        BY <2>3, <3>1 DEF RealAsg
      <3>3. asg' = asg \/ asg' = [asg EXCEPT ![x] = n]
        BY <1>t, <2>3, <2>6, <3>1
      <3> QED
        BY <1>t, <2>3, <3>2, <3>3
    <2>8. asg' \in [Assignments -> AsgRow]
      BY <2>7, RealAsgRow
    <2>9. workTx' \in [WorkSessions -> WorkTxState] /\ StartsAllowed'
      BY <2>5, <2>7, WorkIdleState, WorkSessionMoves
    <2>10. CASE UNCHANGED <<item, worker>>
      BY <1>t, <1>0, <2>5, <2>7, <2>8, <2>9, <2>10
      DEF WorkInv, WorkTypeOK, DoneRemembered, OpenIffUnassigned, StartedAfterDependencies
    <2>11. CASE /\ item' = [item EXCEPT ![i] = Reopen(t.row)]
                /\ worker' = IF t.own.item # i THEN worker
                             ELSE [worker EXCEPT ![a].item = NoItem,
                                     ![a].status = IF t.own.status = "active" THEN @ ELSE "active"]
      <3>1. PICK row : row = Reopen(t.row)
        OBVIOUS
      <3>2. row \in ItemRow /\ row.status = "open" /\ row.who = NoWorker
        <4>1. PICK r \in ItemRow : r = t.row
          BY <2>2
        <4>2. r.ver + 1 \in 0..MaxItemVersion
          BY <2>2, <4>1, WorkItemsAssumption DEF ItemRow
        <4>3. row = [r EXCEPT !.status = "open", !.who = NoWorker, !.ver = r.ver + 1]
          BY <3>1, <4>1 DEF Reopen
        <4> QED
          BY <4>1, <4>2, <4>3 DEF ItemRow
      <3>3. item' \in [Items -> ItemRow] /\ DoneRemembered' /\ OpenIffUnassigned' /\ StartedAfterDependencies'
        BY <1>t, <2>4, <2>5, <2>11, <3>1, <3>2, WorkItemMoves
      <3>4. worker' \in [Workers -> WorkerRow]
        <4>1. PICK st : st = IF t.own.status = "active" THEN worker[a].status ELSE "active"
          OBVIOUS
        <4>2. PICK w : w = [worker[a] EXCEPT !.item = NoItem, !.status = st]
          OBVIOUS
        <4>3. worker[a] \in WorkerRow
          BY <1>t, <2>4
        <4>4. st \in {"active", "busy", "idle", "offline"}
          BY <4>1, <4>3 DEF WorkerRow
        <4>5. w \in WorkerRow
          BY <4>2, <4>3, <4>4 DEF WorkerRow
        <4>6. CASE worker' = worker
          BY <1>t, <4>6
        <4>7. CASE worker' = [worker EXCEPT ![a].item = NoItem, ![a].status = IF t.own.status = "active" THEN @ ELSE "active"]
          <5>1. worker' = [worker EXCEPT ![a] = w]
            BY <1>t, <2>4, <4>1, <4>2, <4>3, <4>7 DEF WorkerRow
          <5> QED
            BY <1>t, <2>4, <4>5, <5>1
        <4> QED
          BY <2>11, <4>6, <4>7
      <3> QED
        BY <1>t, <2>5, <2>7, <2>8, <2>9, <3>3, <3>4 DEF WorkInv, WorkTypeOK
    <2> QED
      BY <1>14, <2>1, <2>3, <2>4, <2>10, <2>11 DEF RevokeCommit
  <1>15. CASE WorkUpdatePolicy
    <2>1. polGen' \in 1..MaxPolicyGen /\ UNCHANGED <<item, worker, asg, workTx, everDone>>
      BY <1>t, <1>15, WorkItemsAssumption DEF WorkUpdatePolicy
    <2> QED
      BY <1>t, <1>0, <2>1 DEF WorkInv, WorkTypeOK, DoneRemembered, StartsAllowed, OpenIffUnassigned, StartedAfterDependencies
  <1>16. CASE UNCHANGED workVars
    BY <1>t, <1>0, <1>16 DEF workVars, WorkInv, WorkTypeOK, DoneRemembered, StartsAllowed, OpenIffUnassigned, StartedAfterDependencies
  <1> QED
    BY <1>1, <1>2, <1>3, <1>4, <1>5, <1>6, <1>7, <1>8, <1>9, <1>10, <1>11, <1>12, <1>13, <1>14, <1>15, <1>16 DEF WorkNext

\* An item keeps its assignee until a revocation removes it.
LEMMA WorkNoSteal ==
  ASSUME WorkInv, [WorkNext]_workVars, NEW i \in Items, item[i].who # NoWorker
  PROVE  item'[i].who \in {item[i].who, NoWorker}
  <1>t. item \in [Items -> ItemRow] /\ workTx \in [WorkSessions -> WorkTxState]
    BY DEF WorkInv, WorkTypeOK
  <1>1. ASSUME NEW j \in Items, CreateWorkItem(j) PROVE item'[i].who = item[i].who
    BY <1>t, <1>1 DEF CreateWorkItem, ItemRow
  <1>2. ASSUME NEW s \in WorkSessions, ClaimCommit(s) \/ ApplyCommit(s) PROVE item'[i] = item[i]
    BY <1>t, <1>2 DEF ClaimCommit, ApplyCommit, ItemFree, TakeItem
  <1>3. ASSUME NEW s \in WorkSessions, UpdateCommit(s) PROVE item'[i].who = item[i].who
    <2>1. item' = item \/ item' = [item EXCEPT ![workTx[s].i] = [@ EXCEPT !.status = workTx[s].st, !.ver = workTx[s].ver + 1]]
      BY <1>3 DEF UpdateCommit
    <2> QED
      BY <1>t, <2>1 DEF ItemRow
  <1>4. ASSUME NEW s \in WorkSessions, RevokeCommit(s) PROVE item'[i].who \in {item[i].who, NoWorker}
    <2>1. PICK t \in WorkTxState : t = workTx[s]
      BY <1>t
    <2>2. t.row \in ItemRow
      BY <1>4, <2>1, WorkTxFields DEF RevokeCommit
    <2>3. Reopen(t.row).who = NoWorker
      BY <2>2 DEF Reopen, ItemRow
    <2>4. item' = item \/ item' = [item EXCEPT ![asg[t.x].item] = Reopen(t.row)]
      BY <1>4, <2>1 DEF RevokeCommit
    <2> QED
      BY <1>t, <2>3, <2>4
  <1>5. ASSUME UNCHANGED item PROVE item'[i].who = item[i].who
    BY <1>5
  <1>6. ASSUME NEW a \in Workers, NEW r \in AgentStates, AgentReport(a, r[1], r[2]) PROVE UNCHANGED item
    BY <1>6 DEF AgentReport
  <1>7. ASSUME NEW s \in WorkSessions, NEW a \in Workers, NEW j \in Items,
               \/ ClaimRead(s, a, j)
               \/ \E st \in {"in_progress", "completed", "failed"} : UpdateRead(s, a, j, st)
               \/ \E auto \in BOOLEAN : ProposeRead(s, j, a, auto)
               \/ \E x \in Assignments : ForceRead(s, x, j, a)
        PROVE  UNCHANGED item
    BY <1>7 DEF ClaimRead, UpdateRead, ProposeRead, ForceRead
  <1>8. ASSUME NEW s \in WorkSessions, NEW x \in Assignments,
               ProposeCommit(s, x) \/ ApplyRequest(s, x) \/ RevokeRead(s, x)
        PROVE  UNCHANGED item
    BY <1>8 DEF ProposeCommit, ApplyRequest, RevokeRead
  <1>9. ASSUME NEW s \in WorkSessions, ApplyRead(s) PROVE UNCHANGED item
    BY <1>9 DEF ApplyRead
  <1>10. ASSUME WorkUpdatePolicy \/ UNCHANGED workVars PROVE UNCHANGED item
    BY <1>10 DEF WorkUpdatePolicy, workVars
  <1> QED
    BY <1>1, <1>2, <1>3, <1>4, <1>5, <1>6, <1>7, <1>8, <1>9, <1>10 DEF WorkNext

\* No item without or with two workers, and none started before its
\* dependencies, whichever claims, assignments and revocations overlap.
THEOREM WorkItemsCorrect == WorkSpec => WorkItemsSound
  <1>1. WorkInv => OpenIffUnassigned /\ StartedAfterDependencies
    BY DEF WorkInv
  <1>2. WorkInv /\ [WorkNext]_workVars =>
          [\A i \in Items : item[i].who # NoWorker => item'[i].who \in {item[i].who, NoWorker}]_workVars
    BY WorkNoSteal
  <1> QED
    BY <1>1, <1>2, WorkInitInv, WorkStepInv, PTL DEF WorkSpec, WorkItemsSound, NoItemStolen

-----------------------------------------------------------------------------
(* Recovery loops (AutonomyRecovery)                                       *)

\* The rows a worker read at the start of its cycle.
RecBatch == UNION {[D -> RecRow] : D \in SUBSET RecLoops}

RecTxState ==
    {RecIdle}
    \cup [op : {"create"}, l : RecLoops, polgen : 1..RecMaxGen]
    \cup [op : {"cycle"}, gen : 1..RecMaxGen, batch : RecBatch]
    \cup [op : {"issued"}, gen : 1..RecMaxGen, batch : RecBatch, l : RecLoops, k : 1..RecMaxAttempts]
    \cup [op : {"outcome"}, l : RecLoops, outcome : {"succeeded", "cancelled", "failed"}, row : RecRow]
    \cup [op : {"control"}, state : {"enabled", "paused", "killed"}, controls : BOOLEAN, seen : SUBSET RecLoops]

\* A count read long ago still names an attempt that has its command.
BatchesNamed ==
    \A s \in RecSessions : recTx[s].op \in {"cycle", "issued"} =>
       \A l \in DOMAIN recTx[s].batch :
          recTx[s].batch[l].count > 0 => recCmd[<<l, recTx[s].batch[l].count>>] > 0

\* A cycle saves the attempt whose command it has issued.
IssuedNamed ==
    \A s \in RecSessions : recTx[s].op = "issued" => recCmd[<<recTx[s].l, recTx[s].k>>] > 0

RecInv ==
    /\ RecTypeOK /\ recTx \in [RecSessions -> RecTxState]
    /\ BatchesNamed /\ IssuedNamed /\ RecoverySound

(* What each call on recovery loops carries: the row, the batch of rows or   *)
(* the control it has read.                                                  *)
LEMMA RecTxFields ==
  ASSUME NEW t \in RecTxState
  PROVE  /\ t.op = "create" => t.l \in RecLoops /\ t.polgen \in 1..RecMaxGen
         /\ t.op = "cycle" => t.gen \in 1..RecMaxGen /\ t.batch \in RecBatch
         /\ t.op = "issued" => t.gen \in 1..RecMaxGen /\ t.batch \in RecBatch /\ t.l \in RecLoops /\ t.k \in 1..RecMaxAttempts
         /\ t.op = "outcome" => t.l \in RecLoops /\ t.outcome \in {"succeeded", "cancelled", "failed"} /\ t.row \in RecRow
         /\ t.op = "control" => t.state \in {"enabled", "paused", "killed"} /\ t.seen \in SUBSET RecLoops
  BY DEF RecTxState, RecIdle

(* The idle session is one of the session states.                            *)
LEMMA RecIdleState == RecIdle \in RecTxState /\ RecIdle.op = "idle"
  BY DEF RecTxState, RecIdle

(* A batch holds rows of loops that exist.                                   *)
LEMMA RecBatchRows ==
  ASSUME NEW b \in RecBatch
  PROVE  DOMAIN b \subseteq RecLoops /\ \A l \in DOMAIN b : b[l] \in RecRow
  BY DEF RecBatch

(* Dropping a loop from a batch leaves the other rows as they were read.     *)
LEMMA RecBatchWithout ==
  ASSUME NEW b \in RecBatch, NEW l
  PROVE  /\ RecWithout(b, l) \in RecBatch /\ DOMAIN RecWithout(b, l) \subseteq DOMAIN b
         /\ \A k \in DOMAIN RecWithout(b, l) : RecWithout(b, l)[k] = b[k]
  <1>1. DOMAIN b \subseteq RecLoops /\ \A k \in DOMAIN b : b[k] \in RecRow
    BY RecBatchRows
  <1>2. PICK D : D = DOMAIN b \ {l}
    OBVIOUS
  <1>3. D \in SUBSET RecLoops /\ D \subseteq DOMAIN b
    BY <1>1, <1>2
  <1>4. RecWithout(b, l) = [k \in D |-> b[k]]
    BY <1>2 DEF RecWithout
  <1>5. [k \in D |-> b[k]] \in [D -> RecRow]
    BY <1>1, <1>3
  <1> QED
    BY <1>3, <1>4, <1>5 DEF RecBatch

(* No recovery loop exists at first.                                         *)
LEMMA RecInitInv == RecInit => RecInv
  <1> SUFFICES ASSUME RecInit PROVE RecInv
    OBVIOUS
  <1>1. RecTypeOK
    BY RecoveryAssumption DEF RecInit, RecTypeOK, RecRow
  <1>2. recTx \in [RecSessions -> RecTxState] /\ \A s \in RecSessions : recTx[s].op = "idle"
    BY RecIdleState DEF RecInit
  <1>3. RecoverySound
    BY DEF RecInit, RecoverySound, AttemptHasOneCommand, LatestAttemptConsistent, NoAttemptSkipped
  <1> QED
    BY <1>1, <1>2, <1>3 DEF RecInv, BatchesNamed, IssuedNamed

\* What a step may do when it issues no command: a session goes on with what
\* it had, and the rows keep naming attempts that have their commands.
LEMMA RecQuiet ==
  ASSUME RecInv, NEW s \in RecSessions, NEW t \in RecTxState,
         recTx' = [recTx EXCEPT ![s] = t], recCmd' = recCmd,
         t.op \in {"cycle", "issued"} => \A l \in DOMAIN t.batch : t.batch[l].count > 0 => recCmd[<<l, t.batch[l].count>>] > 0,
         t.op = "issued" => recCmd[<<t.l, t.k>>] > 0,
         recLoop' \in [RecLoops -> RecRow],
         \A l \in RecLoops : /\ recLoop'[l].last = recLoop'[l].count
                             /\ recLoop'[l].count > 0 => recCmd[<<l, recLoop'[l].count>>] > 0,
         recPol' \in [gen : 1..RecMaxGen, state : {"enabled", "paused", "killed"}],
         recCrashes' \in 0..RecMaxCrashes, recAway' = recAway
  PROVE  RecInv'
  <1>1. /\ recTx' \in [RecSessions -> RecTxState] /\ recTx'[s] = t
        /\ \A x \in RecSessions : x # s => recTx'[x] = recTx[x]
    BY DEF RecInv
  <1>2. RecTypeOK'
    BY DEF RecInv, RecTypeOK
  <1>3. BatchesNamed'
    BY <1>1 DEF RecInv, BatchesNamed
  <1>4. IssuedNamed'
    BY <1>1 DEF RecInv, IssuedNamed
  <1>5. AttemptHasOneCommand' /\ NoAttemptSkipped'
    BY DEF RecInv, RecoverySound, AttemptHasOneCommand, NoAttemptSkipped
  <1>6. LatestAttemptConsistent'
    BY DEF LatestAttemptConsistent
  <1> QED
    BY <1>1, <1>2, <1>3, <1>4, <1>5, <1>6 DEF RecInv, RecoverySound

(* Every step of creating, issuing, recording and controlling recovery loops *)
(* keeps the invariant.                                                      *)
LEMMA RecStepInv == RecInv /\ [RecNext]_recVars => RecInv'
  <1> SUFFICES ASSUME RecInv, [RecNext]_recVars PROVE RecInv'
    OBVIOUS
  <1>t. /\ recLoop \in [RecLoops -> RecRow] /\ recCmd \in [RecAttempts -> Nat]
        /\ recPol \in [gen : 1..RecMaxGen, state : {"enabled", "paused", "killed"}]
        /\ recCrashes \in 0..RecMaxCrashes /\ recTx \in [RecSessions -> RecTxState]
        /\ recAway \subseteq {"coordinator"} \cup RecLoops
    BY DEF RecInv, RecTypeOK
  <1>0. BatchesNamed /\ IssuedNamed /\ AttemptHasOneCommand /\ LatestAttemptConsistent /\ NoAttemptSkipped
    BY DEF RecInv, RecoverySound
  <1>l. /\ \A l \in RecLoops : recLoop[l].last = recLoop[l].count
                             /\ (recLoop[l].count > 0 => recCmd[<<l, recLoop[l].count>>] > 0)
        /\ recLoop \in [RecLoops -> RecRow]
    BY <1>t, <1>0 DEF LatestAttemptConsistent
  \* A row with another status and due mark keeps what it names.
  <1>w. ASSUME recLoop' \in [RecLoops -> RecRow],
               \A l \in RecLoops : recLoop'[l].last = recLoop[l].last /\ recLoop'[l].count = recLoop[l].count
        PROVE  \A l \in RecLoops : /\ recLoop'[l].last = recLoop'[l].count
                                   /\ recLoop'[l].count > 0 => recCmd[<<l, recLoop'[l].count>>] > 0
    BY <1>l, <1>w
  <1>ww. RecWorkers \subseteq RecSessions /\ RecRequests \subseteq RecSessions
    BY DEF RecSessions
  \* The session comes to rest, or takes up a request without a batch.
  <1>q. ASSUME NEW s \in RecSessions, NEW t \in RecTxState, t.op \notin {"cycle", "issued"},
               recTx' = [recTx EXCEPT ![s] = t], recCmd' = recCmd,
               recLoop' \in [RecLoops -> RecRow],
               \A l \in RecLoops : recLoop'[l].last = recLoop[l].last /\ recLoop'[l].count = recLoop[l].count,
               recPol' \in [gen : 1..RecMaxGen, state : {"enabled", "paused", "killed"}],
               recCrashes' \in 0..RecMaxCrashes, recAway' = recAway
        PROVE  RecInv'
    BY <1>q, <1>w, RecQuiet
  <1>1. ASSUME NEW s \in RecSessions, NEW l \in RecLoops, CreateLoopRead(s, l) PROVE RecInv'
    <2>1. PICK t : t = [op |-> "create", l |-> l, polgen |-> recPol.gen]
      OBVIOUS
    <2>2. t \in RecTxState /\ t.op = "create"
      BY <1>t, <2>1 DEF RecTxState
    <2>3. recTx' = [recTx EXCEPT ![s] = t] /\ UNCHANGED <<recLoop, recCmd, recPol, recCrashes, recAway>>
      BY <1>1, <2>1 DEF CreateLoopRead, RecBegin
    <2> QED
      BY <1>t, <1>q, <2>2, <2>3
  <1>2. ASSUME NEW s \in RecSessions, CreateLoopCommit(s) PROVE RecInv'
    <2>1. PICK t \in RecTxState : t = recTx[s]
      BY <1>t
    <2>2. t.op = "create" /\ t.l \in RecLoops /\ t.polgen \in 1..RecMaxGen
      BY <1>2, <2>1, RecTxFields DEF CreateLoopCommit
    <2>3. /\ recTx' = [recTx EXCEPT ![s] = RecIdle] /\ UNCHANGED <<recCmd, recPol, recCrashes, recAway>>
          /\ recLoop' = IF recLoop[t.l].status # "absent" THEN recLoop
                        ELSE [recLoop EXCEPT ![t.l] = [@ EXCEPT !.status = "planned", !.polgen = t.polgen, !.due = TRUE]]
      BY <1>2, <2>1 DEF CreateLoopCommit, RecEnd
    <2>4. /\ recLoop' \in [RecLoops -> RecRow]
          /\ \A l \in RecLoops : recLoop'[l].last = recLoop[l].last /\ recLoop'[l].count = recLoop[l].count
      <3>1. CASE recLoop' = recLoop
        BY <1>t, <3>1
      <3>2. CASE recLoop' = [recLoop EXCEPT ![t.l] = [recLoop[t.l] EXCEPT !.status = "planned", !.polgen = t.polgen, !.due = TRUE]]
        <4>1. PICK row : row = [recLoop[t.l] EXCEPT !.status = "planned", !.polgen = t.polgen, !.due = TRUE]
          OBVIOUS
        <4>2. PICK old \in RecRow : old = recLoop[t.l]
          BY <1>t, <2>2
        <4>3. t.polgen \in 0..RecMaxGen
          BY <2>2, RecoveryAssumption
        <4>4. row \in RecRow /\ row.last = old.last /\ row.count = old.count
          BY <4>1, <4>2, <4>3 DEF RecRow
        <4>5. recLoop' = [recLoop EXCEPT ![t.l] = row]
          BY <3>2, <4>1
        <4> QED
          BY <1>t, <2>2, <4>2, <4>4, <4>5
      <3> QED
        BY <2>3, <3>1, <3>2
    <2> QED
      BY <1>t, <1>q, <2>3, <2>4, RecIdleState
  <1>3. ASSUME NEW s \in RecSessions, CycleRead(s) PROVE RecInv'
    <2>1. PICK b : b = [l \in DueLoops |-> recLoop[l]]
      OBVIOUS
    <2>2. DueLoops \subseteq RecLoops
      BY DEF DueLoops
    <2>3. b \in [DueLoops -> RecRow]
      BY <1>t, <2>1, <2>2
    <2>4. b \in RecBatch /\ DOMAIN b = DueLoops
      BY <2>2, <2>3 DEF RecBatch
    <2>5. PICK t : t = [op |-> "cycle", gen |-> recPol.gen, batch |-> b]
      OBVIOUS
    <2>6. t \in RecTxState /\ t.op = "cycle" /\ t.batch = b
      BY <1>t, <2>4, <2>5 DEF RecTxState
    <2>7. recTx' = [recTx EXCEPT ![s] = t] /\ UNCHANGED <<recLoop, recCmd, recPol, recCrashes, recAway>>
      BY <1>3, <2>1, <2>5 DEF CycleRead, RecBegin
    <2>8. \A l \in DOMAIN t.batch : t.batch[l].count > 0 => recCmd[<<l, t.batch[l].count>>] > 0
      BY <1>l, <2>1, <2>2, <2>4, <2>6
    <2> QED
      BY <1>t, <1>l, <2>6, <2>7, <2>8, RecQuiet
  <1>4. ASSUME NEW s \in RecSessions, NEW l \in RecLoops, CycleStop(s, l) PROVE RecInv'
    <2>1. PICK t \in RecTxState : t = recTx[s]
      BY <1>t
    <2>2. t.op = "cycle" /\ t.gen \in 1..RecMaxGen /\ t.batch \in RecBatch
      BY <1>4, <2>1, RecTxFields DEF CycleStop
    <2>3. t = [op |-> "cycle", gen |-> t.gen, batch |-> t.batch]
      BY <2>2 DEF RecTxState, RecIdle
    <2>4. PICK g \in 1..RecMaxGen, b \in RecBatch : t = [op |-> "cycle", gen |-> g, batch |-> b]
      BY <2>2, <2>3
    <2>5. PICK c : c = RecWithout(b, l)
      OBVIOUS
    <2>6. /\ c \in RecBatch /\ DOMAIN c \subseteq DOMAIN b /\ \A k \in DOMAIN c : c[k] = b[k]
      BY <2>4, <2>5, RecBatchWithout
    <2>7. PICK u : u = [op |-> "cycle", gen |-> g, batch |-> c]
      OBVIOUS
    <2>8. u \in RecTxState /\ u.op = "cycle" /\ u.batch = c
      BY <2>4, <2>6, <2>7 DEF RecTxState
    <2>9. recTx' = [recTx EXCEPT ![s] = u]
      <3>1. recTx' = [recTx EXCEPT ![s].batch = RecWithout(recTx[s].batch, l)]
        BY <1>4 DEF CycleStop
      <3>2. RecWithout(recTx[s].batch, l) = c
        BY <2>1, <2>4, <2>5
      <3>3. [t EXCEPT !.batch = c] = u
        BY <2>4, <2>7
      <3> QED
        BY <1>t, <2>1, <3>1, <3>2, <3>3
    <2>10. \A k \in DOMAIN b : b[k].count > 0 => recCmd[<<k, b[k].count>>] > 0
      <3>1. t.batch = b
        BY <2>4
      <3> QED
        BY <1>0, <2>1, <2>2, <3>1 DEF BatchesNamed
    <2>11. \A k \in DOMAIN u.batch : u.batch[k].count > 0 => recCmd[<<k, u.batch[k].count>>] > 0
      BY <2>6, <2>8, <2>10
    <2>12. /\ recLoop' \in [RecLoops -> RecRow]
           /\ \A k \in RecLoops : recLoop'[k].last = recLoop[k].last /\ recLoop'[k].count = recLoop[k].count
      <3>1. recLoop' = [recLoop EXCEPT ![l].status = "paused"] \/ recLoop' = [recLoop EXCEPT ![l].status = "exhausted"]
        BY <1>4 DEF CycleStop
      <3>2. CASE recLoop' = [recLoop EXCEPT ![l].status = "paused"]
        BY <1>t, <3>2 DEF RecRow, RecTerminal
      <3>3. CASE recLoop' = [recLoop EXCEPT ![l].status = "exhausted"]
        BY <1>t, <3>3 DEF RecRow, RecTerminal
      <3> QED
        BY <3>1, <3>2, <3>3
    <2>13. UNCHANGED <<recCmd, recPol, recCrashes, recAway>>
      BY <1>4 DEF CycleStop
    <2> QED
      BY <1>t, <1>w, <2>8, <2>9, <2>11, <2>12, <2>13, RecQuiet
  <1>5. ASSUME NEW s \in RecSessions, NEW l \in RecLoops, CycleIssue(s, l) PROVE RecInv'
    <2>1. PICK t \in RecTxState : t = recTx[s]
      BY <1>t
    <2>2. t.op = "cycle" /\ t.gen \in 1..RecMaxGen /\ t.batch \in RecBatch
      BY <1>5, <2>1, RecTxFields DEF CycleIssue
    <2>3. PICK g \in 1..RecMaxGen, b \in RecBatch : g = t.gen /\ b = t.batch
      BY <2>2
    <2>4. l \in DOMAIN b /\ b[l].count < RecMaxAttempts
      BY <1>5, <2>1, <2>3 DEF CycleIssue
    <2>5. DOMAIN b \subseteq RecLoops /\ \A k \in DOMAIN b : b[k] \in RecRow
      BY <2>3, RecBatchRows
    <2>6. b[l].count \in 0..RecMaxAttempts
      BY <2>4, <2>5 DEF RecRow
    <2>7. PICK n \in 1..RecMaxAttempts : n = b[l].count + 1
      BY <2>4, <2>6, RecoveryAssumption
    <2>8. PICK c : c = RecWithout(b, l)
      OBVIOUS
    <2>9. /\ c \in RecBatch /\ DOMAIN c \subseteq DOMAIN b /\ \A k \in DOMAIN c : c[k] = b[k]
      BY <2>3, <2>8, RecBatchWithout
    <2>10. PICK u : u = [op |-> "issued", gen |-> g, batch |-> c, l |-> l, k |-> n]
      OBVIOUS
    <2>11. u \in RecTxState /\ u.op = "issued" /\ u.batch = c /\ u.l = l /\ u.k = n
      BY <2>3, <2>7, <2>9, <2>10 DEF RecTxState
    <2>12. recTx' = [recTx EXCEPT ![s] = u] /\ UNCHANGED <<recLoop, recPol, recCrashes, recAway>>
      BY <1>5, <2>1, <2>3, <2>7, <2>8, <2>10 DEF CycleIssue
    <2>13. PICK a : a = <<l, n>>
      OBVIOUS
    <2>14. a \in RecAttempts /\ a[1] = l /\ a[2] = n
      BY <2>7, <2>13 DEF RecAttempts
    <2>15. recCmd' = IF recCmd[a] > 0 THEN recCmd ELSE [recCmd EXCEPT ![a] = @ + 1]
      BY <1>5, <2>1, <2>3, <2>7, <2>13 DEF CycleIssue, RecIssueCommand
    <2>16. /\ recCmd' \in [RecAttempts -> Nat] /\ recCmd'[a] > 0
           /\ \A x \in RecAttempts : recCmd[x] > 0 => recCmd'[x] > 0
           /\ \A x \in RecAttempts : x # a => recCmd'[x] = recCmd[x]
           /\ \A x \in RecAttempts : recCmd'[x] <= 1
      <3>1. recCmd[a] \in Nat /\ \A x \in RecAttempts : recCmd[x] \in Nat /\ recCmd[x] <= 1
        BY <1>t, <1>0, <2>14 DEF AttemptHasOneCommand
      <3>2. CASE recCmd[a] > 0
        BY <1>t, <2>15, <3>1, <3>2
      <3>3. CASE ~(recCmd[a] > 0)
        <4>1. recCmd' = [recCmd EXCEPT ![a] = 1]
          <5>1. recCmd[a] = 0
            BY <3>1, <3>3
          <5> QED
            BY <1>t, <2>15, <3>3, <5>1
        <4> QED
          BY <1>t, <2>14, <3>1, <4>1
      <3> QED
        BY <3>2, <3>3
    <2>17. \A k \in DOMAIN b : b[k].count > 0 => recCmd[<<k, b[k].count>>] > 0
      BY <1>0, <2>1, <2>2, <2>3 DEF BatchesNamed
    <2>18. \A k \in RecLoops, m \in 1..RecMaxAttempts : <<k, m>> \in RecAttempts
      BY DEF RecAttempts
    <2>19. \A k \in RecLoops, m \in 0..RecMaxAttempts : m > 0 /\ recCmd[<<k, m>>] > 0 => recCmd'[<<k, m>>] > 0
      <3> SUFFICES ASSUME NEW k \in RecLoops, NEW m \in 0..RecMaxAttempts, m > 0, recCmd[<<k, m>>] > 0
                   PROVE  recCmd'[<<k, m>>] > 0
        OBVIOUS
      <3>1. m \in 1..RecMaxAttempts
        BY RecoveryAssumption
      <3> QED
        BY <2>16, <2>18, <3>1
    <2>20. /\ recTx' \in [RecSessions -> RecTxState] /\ recTx'[s] = u
           /\ \A x \in RecSessions : x # s => recTx'[x] = recTx[x]
      BY <1>t, <2>11, <2>12
    <2>21. RecTypeOK'
      BY <1>t, <2>12, <2>16 DEF RecTypeOK
    <2>22. BatchesNamed'
      <3> SUFFICES ASSUME NEW x \in RecSessions, recTx'[x].op \in {"cycle", "issued"}, NEW k \in DOMAIN recTx'[x].batch,
                          recTx'[x].batch[k].count > 0
                   PROVE  recCmd'[<<k, recTx'[x].batch[k].count>>] > 0
        BY DEF BatchesNamed
      <3>1. CASE x = s
        <4>1. k \in DOMAIN c /\ k \in DOMAIN b /\ recTx'[x].batch[k] = b[k]
          BY <2>9, <2>11, <2>20, <3>1
        <4>2. b[k].count \in 0..RecMaxAttempts /\ k \in RecLoops
          BY <2>5, <4>1 DEF RecRow
        <4> QED
          BY <2>17, <2>19, <4>1, <4>2
      <3>2. CASE x # s
        <4>1. PICK v \in RecTxState : v = recTx[x] /\ v = recTx'[x]
          BY <1>t, <2>20, <3>2
        <4>2. PICK d \in RecBatch : d = v.batch
          BY <4>1, RecTxFields
        <4>3. k \in DOMAIN d /\ k \in RecLoops /\ d[k] \in RecRow
          BY <4>1, <4>2, RecBatchRows
        <4>4. d[k].count \in 0..RecMaxAttempts
          BY <4>3 DEF RecRow
        <4>5. recCmd[<<k, d[k].count>>] > 0
          BY <1>0, <4>1, <4>2, <4>3 DEF BatchesNamed
        <4> QED
          BY <2>19, <4>1, <4>2, <4>3, <4>4, <4>5
      <3> QED
        BY <3>1, <3>2
    <2>23. IssuedNamed'
      <3> SUFFICES ASSUME NEW x \in RecSessions, recTx'[x].op = "issued"
                   PROVE  recCmd'[<<recTx'[x].l, recTx'[x].k>>] > 0
        BY DEF IssuedNamed
      <3>1. CASE x = s
        BY <2>11, <2>13, <2>16, <2>20, <3>1
      <3>2. CASE x # s
        <4>1. PICK v \in RecTxState : v = recTx[x] /\ v = recTx'[x]
          BY <1>t, <2>20, <3>2
        <4>2. v.l \in RecLoops /\ v.k \in 1..RecMaxAttempts
          BY <4>1, RecTxFields
        <4>3. recCmd[<<v.l, v.k>>] > 0
          BY <1>0, <4>1 DEF IssuedNamed
        <4> QED
          BY <2>16, <2>18, <4>1, <4>2, <4>3
      <3> QED
        BY <3>1, <3>2
    <2>24. LatestAttemptConsistent'
      <3>1. \A k \in RecLoops : recLoop[k].count \in 0..RecMaxAttempts
        BY <1>t DEF RecRow
      <3> QED
        BY <1>l, <2>12, <2>19, <3>1 DEF LatestAttemptConsistent
    <2>25. NoAttemptSkipped'
      <3> SUFFICES ASSUME NEW x \in RecAttempts, recCmd'[x] > 0, NEW k \in 1..(x[2] - 1)
                   PROVE  recCmd'[<<x[1], k>>] > 0
        BY DEF NoAttemptSkipped
      <3>1. x[1] \in RecLoops /\ x[2] \in 1..RecMaxAttempts /\ k \in 1..RecMaxAttempts
        BY RecoveryAssumption DEF RecAttempts
      <3>2. CASE x # a
        BY <1>0, <2>16, <2>18, <3>1, <3>2 DEF NoAttemptSkipped
      <3>3. CASE x = a
        <4>1. k \in 1..b[l].count /\ b[l].count > 0
          BY <2>6, <2>7, <2>14, <3>3
        <4>2. PICK p : p = <<l, b[l].count>>
          OBVIOUS
        <4>3. p \in RecAttempts /\ p[1] = l /\ p[2] = b[l].count /\ recCmd[p] > 0
          BY <2>4, <2>6, <2>17, <2>18, <4>1, <4>2
        <4>4. CASE k = b[l].count
          BY <2>14, <2>16, <3>3, <4>2, <4>3, <4>4
        <4>5. CASE k # b[l].count
          <5>1. k \in 1..(p[2] - 1)
            BY <2>6, <4>1, <4>3, <4>5
          <5>2. recCmd[<<l, k>>] > 0
            BY <1>0, <4>3, <5>1 DEF NoAttemptSkipped
          <5> QED
            BY <2>14, <2>16, <2>18, <3>1, <3>3, <5>2
        <4> QED
          BY <4>4, <4>5
      <3> QED
        BY <3>2, <3>3
    <2>26. AttemptHasOneCommand'
      BY <2>16 DEF AttemptHasOneCommand
    <2> QED
      BY <2>20, <2>21, <2>22, <2>23, <2>24, <2>25, <2>26 DEF RecInv, RecoverySound
  <1>6. ASSUME NEW s \in RecSessions, CycleSave(s) PROVE RecInv'
    <2>1. PICK t \in RecTxState : t = recTx[s]
      BY <1>t
    <2>2. /\ t.op = "issued" /\ t.gen \in 1..RecMaxGen /\ t.batch \in RecBatch /\ t.l \in RecLoops
          /\ t.k \in 1..RecMaxAttempts
      BY <1>6, <2>1, RecTxFields DEF CycleSave
    <2>3. PICK u : u = [op |-> "cycle", gen |-> t.gen, batch |-> t.batch]
      OBVIOUS
    <2>4. u \in RecTxState /\ u.op = "cycle" /\ u.batch = t.batch
      BY <2>2, <2>3 DEF RecTxState
    <2>5. recTx' = [recTx EXCEPT ![s] = u] /\ UNCHANGED <<recCmd, recPol, recCrashes, recAway>>
      BY <1>6, <2>1, <2>3 DEF CycleSave
    <2>6. recLoop' = [recLoop EXCEPT ![t.l] = [@ EXCEPT !.status = "waiting", !.count = t.k, !.last = t.k]]
      BY <1>6, <2>1 DEF CycleSave
    <2>7. recLoop' \in [RecLoops -> RecRow] /\ recLoop'[t.l].last = t.k /\ recLoop'[t.l].count = t.k
          /\ \A l \in RecLoops : l # t.l => recLoop'[l] = recLoop[l]
      <3>1. PICK row : row = [recLoop[t.l] EXCEPT !.status = "waiting", !.count = t.k, !.last = t.k]
        OBVIOUS
      <3>2. PICK old \in RecRow : old = recLoop[t.l]
        BY <1>t, <2>2
      <3>3. t.k \in 0..RecMaxAttempts
        BY <2>2, RecoveryAssumption
      <3>4. row \in RecRow /\ row.last = t.k /\ row.count = t.k
        BY <3>1, <3>2, <3>3 DEF RecRow
      <3>5. recLoop' = [recLoop EXCEPT ![t.l] = row]
        BY <2>6, <3>1
      <3> QED
        BY <1>t, <2>2, <3>4, <3>5
    <2>8. recCmd[<<t.l, t.k>>] > 0
      BY <1>0, <2>1, <2>2 DEF IssuedNamed
    <2>9. \A l \in RecLoops : /\ recLoop'[l].last = recLoop'[l].count
                              /\ recLoop'[l].count > 0 => recCmd[<<l, recLoop'[l].count>>] > 0
      BY <1>l, <2>7, <2>8
    <2>10. \A l \in DOMAIN u.batch : u.batch[l].count > 0 => recCmd[<<l, u.batch[l].count>>] > 0
      BY <1>0, <2>1, <2>2, <2>4 DEF BatchesNamed
    <2> QED
      BY <1>t, <2>4, <2>5, <2>7, <2>9, <2>10, RecQuiet
  <1>7. ASSUME NEW s \in RecSessions, CycleEnd(s) PROVE RecInv'
    <2>1. recTx' = [recTx EXCEPT ![s] = RecIdle] /\ UNCHANGED <<recLoop, recCmd, recPol, recCrashes, recAway>>
      BY <1>7 DEF CycleEnd, RecEnd
    <2> QED
      BY <1>t, <1>q, <2>1, RecIdleState
  <1>8. ASSUME NEW s \in RecSessions, CycleCrash(s) PROVE RecInv'
    <2>1. /\ recTx' = [recTx EXCEPT ![s] = RecIdle] /\ UNCHANGED <<recLoop, recCmd, recPol, recAway>>
          /\ recCrashes' = recCrashes + 1 /\ recCrashes < RecMaxCrashes
      BY <1>8 DEF CycleCrash, RecEnd
    <2>2. recCrashes' \in 0..RecMaxCrashes
      BY <1>t, <2>1, RecoveryAssumption
    <2> QED
      BY <1>t, <1>q, <2>1, <2>2, RecIdleState
  <1>9. ASSUME NEW s \in RecSessions, NEW l \in RecLoops, NEW o \in {"succeeded", "cancelled", "failed"}, OutcomeRead(s, l, o)
        PROVE  RecInv'
    <2>1. PICK t : t = [op |-> "outcome", l |-> l, outcome |-> o, row |-> recLoop[l]]
      OBVIOUS
    <2>2. t \in RecTxState /\ t.op = "outcome"
      BY <1>t, <2>1 DEF RecTxState
    <2>3. recTx' = [recTx EXCEPT ![s] = t] /\ UNCHANGED <<recLoop, recCmd, recPol, recCrashes, recAway>>
      BY <1>9, <2>1 DEF OutcomeRead, RecBegin
    <2> QED
      BY <1>t, <1>q, <2>2, <2>3
  <1>10. ASSUME NEW s \in RecSessions, OutcomeCommit(s) PROVE RecInv'
    <2>1. PICK t \in RecTxState : t = recTx[s]
      BY <1>t
    <2>2. t.op = "outcome" /\ t.l \in RecLoops /\ t.outcome \in {"succeeded", "cancelled", "failed"}
      BY <1>10, <2>1, RecTxFields DEF OutcomeCommit
    <2>3. PICK st : st = AfterOutcome(t.row, t.outcome)
      OBVIOUS
    <2>4. st \in {"succeeded", "cancelled", "exhausted", "planned"}
      BY <2>2, <2>3 DEF AfterOutcome
    <2>5. /\ recLoop' = [recLoop EXCEPT ![t.l].status = st, ![t.l].due = IF st = "planned" THEN FALSE ELSE @]
          /\ recTx' = [recTx EXCEPT ![s] = RecIdle] /\ UNCHANGED <<recCmd, recPol, recCrashes, recAway>>
      BY <1>10, <2>1, <2>3 DEF OutcomeCommit, RecEnd
    <2>6. PICK d : d = IF st = "planned" THEN FALSE ELSE recLoop[t.l].due
      OBVIOUS
    <2>7. recLoop[t.l].due \in BOOLEAN
      BY <1>t, <2>2 DEF RecRow
    <2>8. d \in BOOLEAN
      BY <2>6, <2>7, Zenon
    <2>9. recLoop' = [recLoop EXCEPT ![t.l].status = st, ![t.l].due = d]
      BY <1>t, <2>2, <2>5, <2>6 DEF RecRow
    <2>10. /\ recLoop' \in [RecLoops -> RecRow]
           /\ \A l \in RecLoops : recLoop'[l].last = recLoop[l].last /\ recLoop'[l].count = recLoop[l].count
      BY <1>t, <2>2, <2>4, <2>8, <2>9 DEF RecRow, RecTerminal
    <2> QED
      BY <1>t, <1>q, <2>5, <2>10, RecIdleState
  <1>11. ASSUME NEW l \in RecLoops, BackoffEnds(l) PROVE RecInv'
    <2>1. recLoop' = [recLoop EXCEPT ![l].due = TRUE] /\ UNCHANGED <<recCmd, recPol, recTx, recCrashes, recAway>>
      BY <1>11 DEF BackoffEnds
    <2>2. /\ recLoop' \in [RecLoops -> RecRow]
          /\ \A k \in RecLoops : recLoop'[k].last = recLoop[k].last /\ recLoop'[k].count = recLoop[k].count
      BY <1>t, <2>1 DEF RecRow
    <2>3. LatestAttemptConsistent'
      BY <1>w, <2>1, <2>2 DEF LatestAttemptConsistent
    <2>4. RecTypeOK'
      BY <1>t, <2>1, <2>2 DEF RecTypeOK
    <2> QED
      BY <1>t, <1>0, <2>1, <2>3, <2>4 DEF RecInv, RecoverySound, BatchesNamed, IssuedNamed, AttemptHasOneCommand, NoAttemptSkipped
  <1>12. ASSUME NEW s \in RecSessions, NEW st \in {"enabled", "paused", "killed"}, NEW c \in BOOLEAN, ControlRead(s, st, c)
         PROVE  RecInv'
    <2>1. PICK t : t = [op |-> "control", state |-> st, controls |-> c, seen |-> IF st = "enabled" THEN {} ELSE LiveLoops]
      OBVIOUS
    <2>2. LiveLoops \subseteq RecLoops
      BY DEF LiveLoops
    <2>3. t \in RecTxState /\ t.op = "control"
      BY <2>1, <2>2 DEF RecTxState
    <2>4. recTx' = [recTx EXCEPT ![s] = t] /\ UNCHANGED <<recLoop, recCmd, recPol, recCrashes, recAway>>
      BY <1>12, <2>1 DEF ControlRead, RecBegin
    <2> QED
      BY <1>t, <1>q, <2>3, <2>4
  <1>13. ASSUME NEW s \in RecSessions, ControlCommit(s) PROVE RecInv'
    <2>1. PICK t \in RecTxState : t = recTx[s]
      BY <1>t
    <2>2. t.op = "control" /\ t.state \in {"enabled", "paused", "killed"} /\ t.seen \in SUBSET RecLoops
      BY <1>13, <2>1, RecTxFields DEF ControlCommit
    <2>3. /\ recLoop' = [l \in RecLoops |-> IF l \notin t.seen THEN recLoop[l]
                           ELSE [recLoop[l] EXCEPT !.status = IF t.state = "killed" THEN "cancelled" ELSE "paused"]]
          /\ recPol' = IF t.controls THEN [recPol EXCEPT !.state = t.state] ELSE recPol
          /\ recTx' = [recTx EXCEPT ![s] = RecIdle] /\ UNCHANGED <<recCmd, recCrashes, recAway>>
      BY <1>13, <2>1 DEF ControlCommit, RecEnd, PauseOrCancel
    <2>4. /\ recLoop' \in [RecLoops -> RecRow]
          /\ \A l \in RecLoops : recLoop'[l].last = recLoop[l].last /\ recLoop'[l].count = recLoop[l].count
      BY <1>t, <2>3 DEF RecRow, RecTerminal
    <2>5. recPol' \in [gen : 1..RecMaxGen, state : {"enabled", "paused", "killed"}]
      BY <1>t, <2>2, <2>3
    <2> QED
      BY <1>t, <1>q, <2>3, <2>4, <2>5, RecIdleState
  <1>14. CASE RecUpdatePolicy
    <2>1. recPol' = [recPol EXCEPT !.gen = @ + 1] /\ recPol.gen < RecMaxGen /\ UNCHANGED <<recLoop, recCmd, recTx, recCrashes, recAway>>
      BY <1>14 DEF RecUpdatePolicy
    <2>2. recPol' \in [gen : 1..RecMaxGen, state : {"enabled", "paused", "killed"}]
      <3>1. recPol.gen + 1 \in 1..RecMaxGen
        BY <1>t, <2>1, RecoveryAssumption
      <3> QED
        BY <1>t, <2>1, <3>1
    <2>3. RecTypeOK'
      BY <1>t, <2>1, <2>2 DEF RecTypeOK
    <2> QED
      BY <1>t, <1>0, <2>1, <2>3 DEF RecInv, RecoverySound, BatchesNamed, IssuedNamed, AttemptHasOneCommand,
           NoAttemptSkipped, LatestAttemptConsistent
  <1>15. CASE UNCHANGED recVars
    BY <1>t, <1>0, <1>15 DEF recVars, RecInv, RecTypeOK, RecoverySound, BatchesNamed, IssuedNamed, AttemptHasOneCommand,
         NoAttemptSkipped, LatestAttemptConsistent
  <1>18. ASSUME NEW s \in RecSessions, NEW l \in RecLoops, CycleRefused(s, l) PROVE RecInv'
    <2>1. recTx' = [recTx EXCEPT ![s] = RecIdle] /\ UNCHANGED <<recLoop, recCmd, recPol, recCrashes, recAway>>
      BY <1>18 DEF CycleRefused, RecEnd
    <2> QED
      BY <1>t, <1>q, <2>1, RecIdleState
  <1>19. ASSUME NEW a \in {"coordinator"} \cup RecLoops, RecMembership(a) PROVE RecInv'
    <2>1. recAway' \subseteq {"coordinator"} \cup RecLoops /\ UNCHANGED <<recLoop, recCmd, recPol, recTx, recCrashes>>
      BY <1>t, <1>19 DEF RecMembership
    <2>2. RecTypeOK'
      BY <1>t, <2>1 DEF RecTypeOK
    <2> QED
      BY <1>t, <1>0, <2>1, <2>2 DEF RecInv, RecoverySound, BatchesNamed, IssuedNamed, AttemptHasOneCommand,
           NoAttemptSkipped, LatestAttemptConsistent
  <1>16. ASSUME NEW s \in RecWorkers, RecWorker(s) \/ CycleCrash(s) PROVE RecInv'
    BY <1>ww, <1>16, <1>3, <1>4, <1>5, <1>6, <1>7, <1>8, <1>18 DEF RecWorker
  <1>17. ASSUME NEW s \in RecRequests, RecRequest(s) PROVE RecInv'
    BY <1>ww, <1>17, <1>1, <1>2, <1>9, <1>10, <1>12, <1>13 DEF RecRequest
  <1> QED
    BY <1>11, <1>14, <1>15, <1>16, <1>17, <1>19 DEF RecNext

\* One command per attempt, a row that names it, and no attempt left out,
\* however many workers run a cycle at once and wherever one of them dies.
THEOREM RecoveryCorrect == RecSpec => []RecoverySound
  <1>1. RecInv => RecoverySound
    BY DEF RecInv
  <1> QED
    BY <1>1, RecInitInv, RecStepInv, PTL DEF RecSpec

-----------------------------------------------------------------------------
(* The components side by side                                             *)

AgentsInv == TypeInv /\ RoomInv /\ CmdInv /\ WorkInv /\ RecInv

\* The step of one component is a stuttering step of the others, so each keeps
\* its own invariant.
LEMMA AgentsAlways == AgentsSpec => []AgentsInv
  <1> DEFINE all == <<focus, vars, roomVars, cmdVars, workVars, recVars>>
  <1>1. AgentsInit => AgentsInv
    BY TypeInit, RoomInitInv, CmdInitInv, WorkInitInv, RecInitInv DEF AgentsInit, AgentsInv
  <1>2. ASSUME AgentsInv, [AgentsNext]_all PROVE AgentsInv'
    <2>1. [Next]_vars /\ [RoomNext]_roomVars /\ [CmdNext]_cmdVars /\ [WorkNext]_workVars /\ [RecNext]_recVars
      BY <1>2 DEF AgentsNext
    <2> QED
      BY <1>2, <2>1, TypeStep, RoomStepInv, CmdStepInv, WorkStepInv, RecStepInv DEF AgentsInv
  <1> QED
    BY <1>1, <1>2, PTL DEF AgentsSpec

\* Leases, rooms, commands, work items and loops keep to their types while the
\* agents of agent_coordination.py and agent_autonomy.py work side by side.
THEOREM AgentTypesCorrect == AgentsSpec => []AgentTypesOK
  <1>1. AgentsInv => AgentTypesOK
    BY DEF AgentsInv, TypeInv, RoomInv, CmdInv, WorkInv, RecInv, AgentTypesOK
  <1> QED
    BY <1>1, AgentsAlways, PTL

\* Messages of a room are numbered without gap although the room lock is lost
\* when stale agents are expired, and a finished command was accepted first.
THEOREM CollaborationCorrect == AgentsSpec => []CollaborationSound
  <1>1. AgentsInv => CollaborationSound
    BY DEF AgentsInv, RoomInv, CmdInv, CollaborationSound
  <1> QED
    BY <1>1, AgentsAlways, PTL

\* A behaviour of the agents' work is a behaviour of each of its components.
LEMMA AgentsImplement == AgentsSpec => Spec /\ RoomSpec /\ CmdSpec /\ WorkSpec /\ RecSpec
  <1>1. AgentsInit => Init /\ RoomInit /\ CmdInit /\ WorkInit /\ RecInit
    BY DEF AgentsInit
  <1>2. [AgentsNext]_<<focus, vars, roomVars, cmdVars, workVars, recVars>> =>
          [Next]_vars /\ [RoomNext]_roomVars /\ [CmdNext]_cmdVars /\ [WorkNext]_workVars /\ [RecNext]_recVars
    BY DEF AgentsNext
  <1> QED
    BY <1>1, <1>2, PTL DEF AgentsSpec, Spec, RoomSpec, CmdSpec, WorkSpec, RecSpec

\* Everything the run Agents checks, for any agents, rooms, items and loops
\* (agent_coordination.py, agent_autonomy.py): leases are exclusive and their
\* history implements the ledger, the records of handoffs and integrations are
\* true, and messages, commands, work items and loops keep their promises.
THEOREM AgentsCorrect ==
    AgentsSpec => /\ [](AgentTypesOK /\ ExclusiveLeases /\ CoordinationEvidence)
                  /\ [](CollaborationSound /\ RecoverySound)
                  /\ LeaseHistory /\ WorkItemsSound
  BY AgentsImplement, AgentTypesCorrect, CollaborationCorrect, ExclusiveCorrect, EvidenceCorrect,
     RecoveryCorrect, LeaseHistoryCorrect, WorkItemsCorrect, PTL
=============================================================================
