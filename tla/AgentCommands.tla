---------------------------- MODULE AgentCommands ----------------------------
(***************************************************************************)
(* The life cycle of the commands agents of a room give each other. Every  *)
(* handler reads the row without a lock and later writes its new status,   *)
(* so two handlers may pass their checks on the same status.               *)
(***************************************************************************)
EXTENDS Integers

CONSTANTS
    Agents,         \* agents of the owner
    Commands,       \* commands, by idempotency key
    NeedsApproval,  \* commands with requires_approval
    CmdSessions     \* database sessions

ASSUME CommandsAssumption == NeedsApproval \subseteq Commands

VARIABLES
    present,        \* agents whose current_room_id is the room
    rcmd,           \* rcmd[c]: the command's row
    cmdTx           \* cmdTx[s]: what an open session has read

cmdVars == <<present, rcmd, cmdTx>>

CmdFinal == {"cancelled", "completed", "expired", "failed", "rejected"}

CommandRow == [status : {"absent", "pending", "delivered", "acknowledged", "accepted"} \cup CmdFinal,
               approved : BOOLEAN, accepted : BOOLEAN]

CmdIdle == [op |-> "idle"]

CmdInit ==
    /\ present = Agents
    /\ rcmd = [c \in Commands |-> [status |-> "absent", approved |-> FALSE, accepted |-> FALSE]]
    /\ cmdTx = [s \in CmdSessions |-> CmdIdle]

CmdBegin(s, tx) == cmdTx[s] = CmdIdle /\ cmdTx' = [cmdTx EXCEPT ![s] = tx]
CmdEnd(s) == cmdTx' = [cmdTx EXCEPT ![s] = CmdIdle]

\* An agent joins the room, or reports another one.
MoveAgent(a) ==
    /\ present' = IF a \in present THEN present \ {a} ELSE present \cup {a}
    /\ UNCHANGED <<rcmd, cmdTx>>

(* Commands: each handler reads the command, then writes its new status.   *)
(* Only the federation broker's prepared actions give a command an         *)
(* expires_at, and all of those need an approval.                          *)
CommandIssue(c, from, to) ==
    /\ rcmd[c].status = "absent"
    /\ {from, to} \subseteq present
    /\ rcmd' = [rcmd EXCEPT ![c] = [@ EXCEPT !.status = "pending"]]
    /\ UNCHANGED <<present, cmdTx>>

\* An approval (a vote, or a policy that needs none) marks the command.
CommandApprove(c) ==
    /\ rcmd[c].status # "absent" /\ c \in NeedsApproval /\ ~rcmd[c].approved
    /\ rcmd' = [rcmd EXCEPT ![c].approved = TRUE]
    /\ UNCHANGED <<present, cmdTx>>

\* list_commands expires or delivers, ack_command, accept_command, reject_command,
\* complete_command, cancel_command: from which statuses to which.
ExpireStep(c, row, st) == c \in NeedsApproval /\ row.status \notin CmdFinal /\ st = "expired"
DeliverStep(row, st)   == row.status = "pending" /\ st = "delivered"
AckStep(row, st)       == row.status \in {"pending", "delivered"} /\ st = "acknowledged"
\* Mutant: requires_approval is not looked at.
AcceptStepUnapproved(c, row, st) ==
    row.status \in {"pending", "delivered", "acknowledged"} /\ st = "accepted"

AcceptStep(c, row, st) ==
    /\ row.status \in {"pending", "delivered", "acknowledged"} /\ st = "accepted"
    /\ c \in NeedsApproval => row.approved
RejectStep(row, st)    == row.status \notin CmdFinal /\ st = "rejected"
CompleteStep(row, st)  == row.status = "accepted" /\ st \in {"completed", "failed"}
CancelStep(row, st)    == row.status \notin CmdFinal /\ st = "cancelled"

CommandRead(s, c, st) ==
    /\ rcmd[c].status # "absent"
    /\ LET row == rcmd[c] IN
       \/ ExpireStep(c, row, st) \/ DeliverStep(row, st) \/ AckStep(row, st) \/ AcceptStep(c, row, st)
       \/ RejectStep(row, st) \/ CompleteStep(row, st) \/ CancelStep(row, st)
    /\ CmdBegin(s, [op |-> "command", c |-> c, st |-> st])
    /\ UNCHANGED <<present, rcmd>>

CommandCommit(s) ==
    /\ cmdTx[s].op = "command"
    /\ LET t == cmdTx[s] IN
       rcmd' = [rcmd EXCEPT ![t.c].status = t.st,
                            ![t.c].accepted = @ \/ t.st = "accepted"]
    /\ CmdEnd(s)
    /\ UNCHANGED present

CmdNext ==
    \/ \E a \in Agents : MoveAgent(a)
    \/ \E c \in Commands : \/ \E a, b \in Agents : CommandIssue(c, a, b)
                           \/ CommandApprove(c)
    \/ \E s \in CmdSessions :
         \/ \E c \in Commands, st \in {"delivered", "acknowledged", "accepted"} \cup CmdFinal :
              CommandRead(s, c, st)
         \/ CommandCommit(s)

CmdSpec == CmdInit /\ [][CmdNext]_cmdVars

-----------------------------------------------------------------------------
CmdTypeOK == present \subseteq Agents /\ rcmd \in [Commands -> CommandRow]

\* What its target finished was accepted before, and what needed an approval
\* was accepted only with it, whatever stale status is written in between.
FinishedWasAccepted ==
    \A c \in Commands :
        /\ rcmd[c].status \in {"accepted", "completed", "failed"} => rcmd[c].accepted
        /\ rcmd[c].accepted /\ c \in NeedsApproval => rcmd[c].approved
=============================================================================
