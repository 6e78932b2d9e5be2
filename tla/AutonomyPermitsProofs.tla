------------------------ MODULE AutonomyPermitsProofs ------------------------
(***************************************************************************)
(* Proofs about AutonomyPermits, for any number of sessions, requests,     *)
(* scopes, policies and voters and without the bounds of the TLC runs.     *)
(***************************************************************************)
EXTENDS AutonomyPermits, FiniteSetTheorems, TLAPS

(* What a transaction of each kind holds. *)
LEMMA TxFields ==
    ASSUME NEW t \in Tx
    PROVE  /\ t.op \in {"create", "issue"} => t.req \in Requests /\ t.generation \in Nat
           /\ t.op = "claim" => t.req \in Requests /\ t.left \in SUBSET Scopes
           /\ t.op = "issueChecked" =>
                  t.req \in Requests /\ t.generation \in Nat /\ t.controls \in [Scopes -> Nat]
           /\ t.op \in {"vote", "tally"} => t.req \in Requests /\ t.vote \in Vote
           /\ t.op = "tally" => t.seen \in SUBSET Vote
           /\ t.op = "receipt" => t.req \in Requests /\ t.status \in {"succeeded", "failed"}
           /\ t.op = "control" => /\ t.scope \in Scopes /\ t.was \in ControlStates
                                  /\ t.state \in ControlStates
                                  /\ t.generation \in Nat /\ t.seen \in SUBSET Requests
           /\ t.op = "policy" => /\ t.policy \in Policies /\ t.status \in PolicyStatuses
                                 /\ t.generation \in Nat /\ t.seen \in SUBSET Requests
           /\ t.op \in {"revoke", "expirePermits", "expireRequests"} =>
                  t.seen \in SUBSET Requests
           /\ t.op = "command" => t.cmd \in Commands /\ t.status \in CommandStatuses
  BY DEF Tx, Idle, ReceiptStatuses

\* A session without a transaction is a session.
LEMMA IdleInTx == Idle \in Tx
  BY DEF Tx

-----------------------------------------------------------------------------
(* Type correctness *)

\* The tables are empty at first, so all rows have their type.
LEMMA TypeInit == Init => TypeOK
  BY ConstantsAssumption
  DEF Init, TypeOK, NoPermit, PermitRow, PermitStatuses, RequestStatuses,
      ReceiptStatuses, CommandStatuses, PolicyStatuses, ControlStates, Tx, Idle

\* Overwriting the status of some permits leaves permits.
LEMMA OverwriteType ==
    ASSUME TypeOK, NEW rs \in SUBSET Requests, NEW st \in PermitStatuses
    PROVE  Overwrite(rs, st) \in [Requests -> PermitRow]
  BY DEF TypeOK, Overwrite, PermitRow

(* One step per action; every write stays within the row's type because what *)
(* the transaction carries has the type of the fields it was read from.      *)
LEMMA TypeStep == TypeOK /\ [Next]_vars => TypeOK'
  <1> SUFFICES ASSUME TypeOK, [Next]_vars PROVE TypeOK'
    OBVIOUS
  <1>0. \A x \in Sessions : tx[x] \in Tx
    BY DEF TypeOK
  <1>1. ASSUME NEW x \in Sessions, NEW r \in Requests, CreateRead(x, r) PROVE TypeOK'
    BY <1>1, <1>0, ConstantsAssumption, TxFields DEF TypeOK, Idle, CreateRead, Begin, Tx, rows, time
  <1>2. ASSUME NEW x \in Sessions, NEW r \in Requests, CreateCommit(x, r) PROVE TypeOK'
    <2>1. tx[x].generation \in Nat
      BY <1>2, <1>0, TxFields DEF CreateCommit
    <2> QED
      BY <1>2, <2>1, IdleInTx DEF TypeOK, CreateCommit, End, RequestStatuses, time
  <1>3. ASSUME NEW x \in Sessions, NEW r \in Requests, NEW v \in Voters, NEW d \in Decisions, VoteRead(x, r, v, d) PROVE TypeOK'
    BY <1>3, <1>0, ConstantsAssumption, TxFields DEF TypeOK, Idle, VoteRead, Begin, Tx, Vote, rows, time
  <1>4. ASSUME NEW x \in Sessions, VoteTally(x) PROVE TypeOK'
    BY <1>4, <1>0, ConstantsAssumption, TxFields DEF TypeOK, Idle, VoteTally, Tx, rows, time
  <1>5. ASSUME NEW x \in Sessions, NEW r \in Requests, VoteCommit(x, r) PROVE TypeOK'
    <2>1. tx[x].vote \in Vote
      BY <1>5, <1>0, TxFields DEF VoteCommit
    <2> QED
      <3>1. votes' \in [Requests -> SUBSET Vote]
        BY <1>5, <2>1 DEF TypeOK, VoteCommit
      <3>2. request' \in [Requests -> [status: RequestStatuses, generation: Nat]]
        BY <1>5 DEF TypeOK, VoteCommit, RequestStatuses
      <3>3. command' \in [Commands -> [status: CommandStatuses, approved: BOOLEAN]]
        BY <1>5, ConstantsAssumption DEF TypeOK, VoteCommit
      <3> QED
        BY <1>5, <3>1, <3>2, <3>3, IdleInTx DEF TypeOK, VoteCommit, End, time
  <1>6. ASSUME NEW x \in Sessions, ExpireRequestsRead(x) PROVE TypeOK'
    BY <1>6, <1>0, ConstantsAssumption, TxFields DEF TypeOK, Idle, ExpireRequestsRead, Begin, Tx, rows, time
  <1>7. ASSUME NEW x \in Sessions, ExpireRequestsCommit(x) PROVE TypeOK'
    BY <1>7, IdleInTx DEF TypeOK, ExpireRequestsCommit, End, RequestStatuses, time
  <1>8. ASSUME NEW x \in Sessions, NEW r \in Requests, IssueRead(x, r) PROVE TypeOK'
    BY <1>8, <1>0, ConstantsAssumption, TxFields DEF TypeOK, Idle, IssueRead, Begin, Tx, rows, time
  <1>9. ASSUME NEW x \in Sessions, NEW r \in Requests, IssueCheck(x, r) PROVE TypeOK'
    BY <1>9, <1>0, ConstantsAssumption, TxFields DEF TypeOK, Idle, IssueCheck, Generations, Tx, rows, time
  <1>10. ASSUME NEW x \in Sessions, NEW r \in Requests, IssueCommit(x, r) PROVE TypeOK'
    <2>1. tx[x].generation \in Nat /\ tx[x].controls \in [Scopes -> Nat]
      BY <1>10, <1>0, TxFields DEF IssueCommit
    <2> QED
      BY <1>10, <2>1, IdleInTx DEF TypeOK, IssueCommit, End, PermitRow, PermitStatuses, time
  <1>11. ASSUME NEW x \in Sessions, NEW r \in Requests, ClaimRead(x, r) PROVE TypeOK'
    <2>1. [op |-> "claim", req |-> r, left |-> ScopesOf(r)] \in Tx
      BY ConstantsAssumption DEF Tx, ScopesOf
    <2> QED
      BY <1>11, <2>1 DEF TypeOK, ClaimRead, Begin, rows, time
  <1>12. ASSUME NEW x \in Sessions, NEW r \in Requests, NEW s \in Scopes, ClaimCheck(x, r, s) PROVE TypeOK'
    <2>1. PICK L \in SUBSET Scopes : L = tx[x].left \ {s}
      BY <1>12, <1>0, TxFields DEF ClaimCheck
    <2>2. tx[x].op = "claim" /\ tx'[x] = [tx[x] EXCEPT !.left = L] /\ tx[x] \in Tx
      BY <1>12, <1>0, <2>1 DEF TypeOK, ClaimCheck
    <2>3. [tx[x] EXCEPT !.left = L] = [op |-> "claim", req |-> tx[x].req, left |-> L]
      BY <2>2 DEF Tx, Idle
    <2>4. tx'[x] \in Tx
      BY <1>12, <2>2, <2>3 DEF Tx, ClaimCheck
    <2>5. tx' \in [Sessions -> Tx]
      BY <1>12, <2>4 DEF TypeOK, ClaimCheck
    <2> QED
      BY <1>12, <2>5 DEF TypeOK, ClaimCheck, rows, time
  <1>13. ASSUME NEW x \in Sessions, NEW r \in Requests, ClaimCommit(x, r) PROVE TypeOK'
    <2>1. permit' \in [Requests -> PermitRow]
      BY <1>13 DEF TypeOK, ClaimCommit, PermitRow, PermitStatuses
    <2> QED
      BY <1>13, <2>1, IdleInTx DEF TypeOK, ClaimCommit, End, time
  <1>14. ASSUME NEW x \in Sessions, NEW r \in Requests, NEW st \in ReceiptStatuses \ {"none"}, ReceiptRead(x, r, st) PROVE TypeOK'
    BY <1>14, <1>0, ConstantsAssumption, TxFields DEF TypeOK, Idle, ReceiptRead, Begin, Tx, rows, time
  <1>15. ASSUME NEW x \in Sessions, NEW r \in Requests, ReceiptCommit(x, r) PROVE TypeOK'
    <2>1. tx[x].status \in ReceiptStatuses
      BY <1>15, <1>0, TxFields DEF ReceiptCommit, ReceiptStatuses
    <2> QED
      BY <1>15, <2>1, IdleInTx DEF TypeOK, ReceiptCommit, End, PermitRow, PermitStatuses, ReceiptStatuses, time
  <1>16. ASSUME NEW x \in Sessions, ExpirePermitsRead(x) PROVE TypeOK'
    BY <1>16, <1>0, ConstantsAssumption, TxFields DEF TypeOK, Idle, ExpirePermitsRead, Revocable, Begin, Tx, rows, time
  <1>17. ASSUME NEW x \in Sessions, ExpirePermitsCommit(x) PROVE TypeOK'
    <2>1. tx[x].seen \in SUBSET Requests
      BY <1>17, <1>0, TxFields DEF ExpirePermitsCommit
    <2>2. permit' \in [Requests -> PermitRow]
      BY <1>17, <2>1, OverwriteType DEF ExpirePermitsCommit, PermitStatuses
    <2> QED
      BY <1>17, <2>2, IdleInTx DEF TypeOK, ExpirePermitsCommit, End, time
  <1>18. ASSUME NEW x \in Sessions, NEW s \in Scopes, NEW st \in ControlStates, ControlRead(x, s, st) PROVE TypeOK'
    BY <1>18, <1>0, ConstantsAssumption, TxFields DEF TypeOK, Idle, ControlRead, Revocable, Begin, Tx, rows, time
  <1>19. ASSUME NEW x \in Sessions, NEW s \in Scopes, ControlCommit(x, s) PROVE TypeOK'
    <2>1. tx[x].state \in ControlStates /\ tx[x].generation \in Nat
      BY <1>19, <1>0, TxFields DEF ControlCommit
    <2> QED
      <3>1. control' \in [Scopes -> [state: ControlStates, generation: Nat]]
        BY <1>19, <2>1 DEF TypeOK, ControlCommit
      <3>2. tx[x].seen \in SUBSET Requests
        BY <1>19, <1>0, TxFields DEF ControlCommit
      <3>3. permit' \in [Requests -> PermitRow]
        BY <1>19, <3>2, OverwriteType DEF ControlCommit, PermitStatuses
      <3> QED
        BY <1>19, <3>1, <3>3, IdleInTx DEF TypeOK, ControlCommit, End
  <1>20. ASSUME NEW x \in Sessions, NEW p \in Policies, NEW st \in PolicyStatuses, PolicyRead(x, p, st) PROVE TypeOK'
    BY <1>20, <1>0, ConstantsAssumption, TxFields DEF TypeOK, Idle, PolicyRead, Revocable, Begin, Tx, rows, time
  <1>21. ASSUME NEW x \in Sessions, NEW p \in Policies, PolicyCommit(x, p) PROVE TypeOK'
    <2>1. tx[x].status \in PolicyStatuses
      BY <1>21, <1>0, TxFields DEF PolicyCommit
    <2> QED
      <3>1. policy' \in [Policies -> [status: PolicyStatuses, generation: Nat]]
        BY <1>21, <2>1 DEF TypeOK, PolicyCommit
      <3>2. tx[x].seen \in SUBSET Requests
        BY <1>21, <1>0, TxFields DEF PolicyCommit
      <3>3. permit' \in [Requests -> PermitRow]
        BY <1>21, <3>2, OverwriteType DEF PolicyCommit, PermitStatuses
      <3> QED
        BY <1>21, <3>1, <3>3, IdleInTx DEF TypeOK, PolicyCommit, End, time
  <1>22. ASSUME NEW x \in Sessions, NEW s \in Scopes, RevokeRead(x, s) PROVE TypeOK'
    BY <1>22, <1>0, ConstantsAssumption, TxFields DEF TypeOK, Idle, RevokeRead, Revocable, Begin, Tx, rows, time
  <1>23. ASSUME NEW x \in Sessions, RevokeCommit(x) PROVE TypeOK'
    <2>1. tx[x].seen \in SUBSET Requests
      BY <1>23, <1>0, TxFields DEF RevokeCommit
    <2>2. permit' \in [Requests -> PermitRow]
      BY <1>23, <2>1, OverwriteType DEF RevokeCommit, PermitStatuses
    <2> QED
      BY <1>23, <2>2, IdleInTx DEF TypeOK, RevokeCommit, End, time
  <1>24. ASSUME NEW x \in Sessions, NEW c \in Commands, NEW st \in CommandStatuses, CommandRead(x, c, st) PROVE TypeOK'
    BY <1>24, <1>0, ConstantsAssumption, TxFields DEF TypeOK, Idle, CommandRead, Begin, Tx, rows, time
  <1>25. ASSUME NEW x \in Sessions, NEW c \in Commands, CommandCommit(x, c) PROVE TypeOK'
    <2>1. tx[x].status \in CommandStatuses
      BY <1>25, <1>0, TxFields DEF CommandCommit
    <2> QED
      BY <1>25, <2>1, IdleInTx DEF TypeOK, CommandCommit, End, time
  <1>26. ASSUME NEW x \in Sessions, Rollback(x) PROVE TypeOK'
    BY <1>26, IdleInTx DEF TypeOK, Rollback, End, rows, time
  <1>27. ASSUME NEW r \in Requests, LapseRequest(r) PROVE TypeOK'
    BY <1>27, <1>0, ConstantsAssumption, TxFields DEF TypeOK, Idle, LapseRequest, rows
  <1>28. ASSUME NEW r \in Requests, LapsePermit(r) PROVE TypeOK'
    BY <1>28, <1>0, ConstantsAssumption, TxFields DEF TypeOK, Idle, LapsePermit, rows
  <1>29. ASSUME NEW s \in Scopes, LapseControl(s) PROVE TypeOK'
    BY <1>29, <1>0, ConstantsAssumption, TxFields DEF TypeOK, Idle, LapseControl, rows
  <1>30. CASE UNCHANGED vars
    BY <1>30 DEF TypeOK, vars, rows, time
  <1> QED
    BY <1>1, <1>2, <1>3, <1>4, <1>5, <1>6, <1>7, <1>8, <1>9, <1>10, <1>11, <1>12, <1>13, <1>14, <1>15, <1>16, <1>17, <1>18, <1>19, <1>20, <1>21, <1>22, <1>23, <1>24, <1>25, <1>26, <1>27, <1>28, <1>29, <1>30
    DEF Next, SessionStep, RequestStep, OperatorStep, CommandStep, TimeStep

(* Rows and open transactions have their types, for any number of overlapping *)
(* handlers (all operations of AgentAutonomyService on approvals and permits). *)
THEOREM TypeCorrect == Spec => []TypeOK
  BY TypeInit, TypeStep, PTL DEF Spec

-----------------------------------------------------------------------------
(* Who writes what *)

(* Rows change only in the commits. *)
LEMMA StepKinds ==
    ASSUME [Next]_vars
    PROVE  \/ UNCHANGED rows
           \/ \E x \in Sessions, r \in Requests :
                 \/ CreateCommit(x, r) \/ VoteCommit(x, r) \/ IssueCommit(x, r)
                 \/ ClaimCommit(x, r) \/ ReceiptCommit(x, r)
           \/ \E x \in Sessions, s \in Scopes : ControlCommit(x, s)
           \/ \E x \in Sessions, p \in Policies : PolicyCommit(x, p)
           \/ \E x \in Sessions, c \in Commands : CommandCommit(x, c)
           \/ \E x \in Sessions : \/ ExpireRequestsCommit(x) \/ ExpirePermitsCommit(x)
                                  \/ RevokeCommit(x)
  <1>1. UNCHANGED vars => UNCHANGED rows
    BY DEF vars
  <1>2. TimeStep => UNCHANGED rows
    BY DEF TimeStep, LapseRequest, LapsePermit, LapseControl
  <1>3. ASSUME NEW x \in Sessions, VoteTally(x) \/ Rollback(x) PROVE UNCHANGED rows
    BY <1>3 DEF VoteTally, Rollback
  <1>4. ASSUME NEW x \in Sessions, RequestStep(x)
        PROVE  \/ UNCHANGED rows
               \/ \E r \in Requests :
                     \/ CreateCommit(x, r) \/ VoteCommit(x, r) \/ IssueCommit(x, r)
                     \/ ClaimCommit(x, r) \/ ReceiptCommit(x, r)
    BY <1>4 DEF RequestStep, CreateRead, VoteRead, IssueRead, IssueCheck, ClaimRead,
                ClaimCheck, ReceiptRead
  <1>5. ASSUME NEW x \in Sessions, OperatorStep(x)
        PROVE  \/ UNCHANGED rows
               \/ \E s \in Scopes : ControlCommit(x, s)
               \/ \E p \in Policies : PolicyCommit(x, p)
               \/ ExpireRequestsCommit(x) \/ ExpirePermitsCommit(x) \/ RevokeCommit(x)
    BY <1>5 DEF OperatorStep, ControlRead, PolicyRead, RevokeRead, ExpirePermitsRead,
                ExpireRequestsRead
  <1>6. ASSUME NEW x \in Sessions, CommandStep(x)
        PROVE  UNCHANGED rows \/ \E c \in Commands : CommandCommit(x, c)
    BY <1>6 DEF CommandStep, CommandRead
  <1> QED
    BY <1>1, <1>2, <1>3, <1>4, <1>5, <1>6 DEF Next, SessionStep

(* A transaction stays, ends, or takes one of the reading steps. *)
LEMMA TxKinds ==
    ASSUME TypeOK, [Next]_vars, NEW x \in Sessions
    PROVE  \/ tx'[x] = tx[x] \/ tx'[x] = Idle
           \/ \E r \in Requests :
                 \/ CreateRead(x, r) \/ IssueRead(x, r) \/ IssueCheck(x, r)
                 \/ ClaimRead(x, r)
                 \/ \E v \in Voters, d \in Decisions : VoteRead(x, r, v, d)
                 \/ \E st \in ReceiptStatuses \ {"none"} : ReceiptRead(x, r, st)
           \/ \E r \in Requests, s \in Scopes :
                 ClaimCheck(x, r, s) /\ tx'[x].op = "claim" /\ tx'[x].req = r
           \/ VoteTally(x) \/ ExpireRequestsRead(x) \/ ExpirePermitsRead(x)
           \/ \E s \in Scopes : RevokeRead(x, s) \/ \E st \in ControlStates : ControlRead(x, s, st)
           \/ \E p \in Policies, st \in PolicyStatuses : PolicyRead(x, p, st)
           \/ \E c \in Commands, st \in CommandStatuses : CommandRead(x, c, st)
  <1>1. CASE UNCHANGED vars
    BY <1>1 DEF vars
  <1>2. CASE TimeStep
    BY <1>2 DEF TimeStep, LapseRequest, LapsePermit, LapseControl
  <1>3. ASSUME NEW y \in Sessions, SessionStep(y), y # x PROVE tx'[x] = tx[x]
    BY <1>3 DEF TypeOK, SessionStep, RequestStep, OperatorStep, CommandStep, Begin, End,
         CreateRead, VoteRead, VoteTally, ExpireRequestsRead, IssueRead, IssueCheck,
         ClaimRead, ClaimCheck, ReceiptRead, ExpirePermitsRead, ControlRead, PolicyRead,
         RevokeRead, CommandRead, Rollback,
         CreateCommit, VoteCommit, IssueCommit, ClaimCommit, ReceiptCommit, ControlCommit,
         PolicyCommit, CommandCommit, ExpireRequestsCommit, ExpirePermitsCommit, RevokeCommit
  <1>4. ASSUME NEW r \in Requests, NEW s \in Scopes, ClaimCheck(x, r, s)
        PROVE  tx'[x].op = "claim" /\ tx'[x].req = r
    <2>1. PICK L : L = tx[x].left \ {s}
      OBVIOUS
    <2>2. /\ tx[x].op = "claim" /\ tx[x].req = r /\ tx[x] \in Tx
          /\ tx'[x] = [tx[x] EXCEPT !.left = L]
      BY <1>4, <2>1 DEF TypeOK, ClaimCheck
    <2> QED
      BY <2>2 DEF Tx, Idle
  <1>5. CASE SessionStep(x)
    BY <1>4, <1>5 DEF TypeOK, SessionStep, RequestStep, OperatorStep, CommandStep, End, Rollback,
         CreateCommit, VoteCommit, IssueCommit, ClaimCommit, ReceiptCommit, ControlCommit,
         PolicyCommit, CommandCommit, ExpireRequestsCommit, ExpirePermitsCommit, RevokeCommit
  <1> QED
    BY <1>1, <1>2, <1>3, <1>5 DEF Next

-----------------------------------------------------------------------------
(* Single use *)

(* SingleUse is not inductive: a late receipt must know that its permit was    *)
(* claimed, and a permit that can still be claimed must not have been.         *)
UseInv ==
    /\ \A r \in Requests :
          /\ permit[r].status \in {"none", "active"} => ~permit[r].claimed
          /\ permit[r].uses = IF permit[r].claimed THEN 1 ELSE 0
          /\ receipt[r] # "none" => permit[r].claimed
    /\ \A x \in Sessions : tx[x].op = "receipt" => permit[tx[x].req].claimed

(* Nothing takes a claim back, and only the claim makes one. *)
LEMMA ClaimedSteps ==
    ASSUME TypeOK, UseInv, [Next]_vars, NEW r \in Requests
    PROVE  /\ permit[r].claimed => permit'[r].claimed
           /\ permit'[r].claimed /\ ~permit[r].claimed => \E x \in Sessions : ClaimCommit(x, r)
  <1>1. ASSUME NEW x \in Sessions, NEW q \in Requests, CreateCommit(x, q) \/ VoteCommit(x, q)
        PROVE  permit'[r] = permit[r]
    BY <1>1 DEF CreateCommit, VoteCommit
  <1>2. ASSUME NEW x \in Sessions, NEW q \in Requests, IssueCommit(x, q)
        PROVE  permit'[r].claimed <=> permit[r].claimed
    BY <1>2 DEF IssueCommit, TypeOK, UseInv, PermitRow
  <1>3. ASSUME NEW x \in Sessions, NEW q \in Requests, ClaimCommit(x, q)
        PROVE  /\ permit[r].claimed => permit'[r].claimed
               /\ permit'[r].claimed /\ ~permit[r].claimed => ClaimCommit(x, r)
    BY <1>3 DEF ClaimCommit, TypeOK, PermitRow
  <1>4. ASSUME NEW x \in Sessions, NEW q \in Requests, ReceiptCommit(x, q)
        PROVE  permit'[r].claimed <=> permit[r].claimed
    BY <1>4 DEF ReceiptCommit, TypeOK, PermitRow
  <1>5. ASSUME NEW rs, NEW st, permit' = Overwrite(rs, st)
        PROVE  permit'[r].claimed <=> permit[r].claimed
    BY <1>5 DEF Overwrite, TypeOK, PermitRow
  <1>6. UNCHANGED permit => permit'[r] = permit[r]
    OBVIOUS
  <1> QED
    BY StepKinds, <1>1, <1>2, <1>3, <1>4, <1>5, <1>6
    DEF rows, ControlCommit, PolicyCommit, CommandCommit, ExpireRequestsCommit,
        ExpirePermitsCommit, RevokeCommit

\* No permit has been claimed at first.
LEMMA UseInit == Init => UseInv
  BY ConstantsAssumption DEF Init, UseInv, NoPermit, Idle

\* Every step keeps that a permit is claimed once and receipted after it.
LEMMA UseStep == TypeOK /\ UseInv /\ [Next]_vars => UseInv'
  <1> SUFFICES ASSUME TypeOK, UseInv, [Next]_vars PROVE UseInv'
    OBVIOUS
  <1>0. \A x \in Sessions : tx[x] \in Tx
    BY DEF TypeOK
  <1>1. ASSUME NEW r \in Requests
        PROVE  /\ permit'[r].status \in {"none", "active"} => ~permit'[r].claimed
               /\ permit'[r].uses = IF permit'[r].claimed THEN 1 ELSE 0
               /\ receipt'[r] # "none" => permit'[r].claimed
    <2> DEFINE Shape == /\ permit'[r].status \in {"none", "active"} => ~permit'[r].claimed
                        /\ permit'[r].uses = IF permit'[r].claimed THEN 1 ELSE 0
    <2>1. UNCHANGED permit => Shape
      BY DEF UseInv
    <2>2. ASSUME NEW x \in Sessions, NEW q \in Requests, IssueCommit(x, q) PROVE Shape
      BY <2>2 DEF IssueCommit, UseInv, TypeOK, PermitRow
    <2>3. ASSUME NEW x \in Sessions, NEW q \in Requests, ClaimCommit(x, q) PROVE Shape
      BY <2>3 DEF ClaimCommit, UseInv, TypeOK, PermitRow
    <2>4. ASSUME NEW x \in Sessions, NEW q \in Requests, ReceiptCommit(x, q) PROVE Shape
      BY <2>4 DEF ReceiptCommit, UseInv, TypeOK, PermitRow
    <2>5. ASSUME NEW rs, NEW st \in {"revoked", "expired"}, permit' = Overwrite(rs, st)
          PROVE  Shape
      BY <2>5 DEF Overwrite, UseInv, TypeOK, PermitRow
    <2>6. Shape
      BY StepKinds, <2>1, <2>2, <2>3, <2>4, <2>5
      DEF rows, CreateCommit, VoteCommit, ControlCommit, PolicyCommit, CommandCommit,
          ExpireRequestsCommit, ExpirePermitsCommit, RevokeCommit
    <2>7. ASSUME NEW x \in Sessions, NEW q \in Requests, ReceiptCommit(x, q)
          PROVE  receipt'[r] # receipt[r] => permit[r].claimed
      BY <2>7 DEF ReceiptCommit, UseInv, TypeOK
    <2>8. receipt'[r] # receipt[r] => permit[r].claimed
      BY StepKinds, <2>7
      DEF rows, CreateCommit, VoteCommit, IssueCommit, ClaimCommit, ControlCommit,
          PolicyCommit, CommandCommit, ExpireRequestsCommit, ExpirePermitsCommit, RevokeCommit
    <2> QED
      BY <2>6, <2>8, ClaimedSteps DEF UseInv
  <1>2. ASSUME NEW x \in Sessions, tx'[x].op = "receipt" PROVE permit'[tx'[x].req].claimed
    <2>1. CASE tx'[x] = tx[x]
      BY <1>0, <1>2, <2>1, TxFields, ClaimedSteps DEF UseInv
    <2>2. ASSUME NEW r \in Requests, NEW st \in ReceiptStatuses \ {"none"}, ReceiptRead(x, r, st)
          PROVE  permit'[tx'[x].req].claimed
      BY <2>2, ClaimedSteps DEF ReceiptRead, Begin, TypeOK
    <2> QED
      BY <1>2, <2>1, <2>2, TxKinds
      DEF TypeOK, Idle, Begin, CreateRead, IssueRead, IssueCheck, ClaimRead, ClaimCheck, VoteRead,
          VoteTally, ExpireRequestsRead, ExpirePermitsRead, RevokeRead, ControlRead,
          PolicyRead, CommandRead
  <1> QED
    BY <1>1, <1>2 DEF UseInv

(* A permit is claimed at most once and a receipt implies a claim, whatever the *)
(* interleaving of claims, receipts, revocations and expiries.                  *)
THEOREM SingleUseCorrect == Spec => []SingleUse
  <1>1. TypeOK /\ UseInv => SingleUse
    BY DEF TypeOK, UseInv, SingleUse, PermitRow
  <1> QED
    BY TypeInit, TypeStep, UseInit, UseStep, <1>1, PTL DEF Spec

(* A permit revoked or expired before its claim is never claimed: the claim's *)
(* UPDATE finds no active row, however early its checks were made.            *)
THEOREM DeadPermitCorrect == Spec => DeadPermitStaysDead
  <1>1. ASSUME TypeOK, UseInv, [Next]_vars
        PROVE  [\A r \in Requests :
                  (permit[r].status \in {"revoked", "expired"} /\ ~permit[r].claimed)
                      => ~permit'[r].claimed]_vars
    BY <1>1, ClaimedSteps DEF ClaimCommit
  <1> QED
    BY TypeInit, TypeStep, UseInit, UseStep, <1>1, PTL DEF Spec, DeadPermitStaysDead

\* Only record_receipt writes a receipt.
LEMMA ReceiptWriters ==
    ASSUME TypeOK, [Next]_vars, NEW r \in Requests, receipt'[r] # receipt[r]
    PROVE  \E x \in Sessions : ReceiptCommit(x, r)
  <1>1. ASSUME NEW x \in Sessions, NEW q \in Requests, ReceiptCommit(x, q), q # r
        PROVE  receipt'[r] = receipt[r]
    BY <1>1 DEF ReceiptCommit, TypeOK
  <1> QED
    BY StepKinds, <1>1
    DEF rows, CreateCommit, VoteCommit, IssueCommit, ClaimCommit, ControlCommit,
        PolicyCommit, CommandCommit, ExpireRequestsCommit, ExpirePermitsCommit, RevokeCommit

(* A recorded receipt is never replaced: the unique constraint on the permit *)
(* turns every later record_receipt into a read of the first one.            *)
THEOREM ReceiptImmutableCorrect == Spec => ReceiptImmutable
  <1>1. ASSUME TypeOK, [Next]_vars
        PROVE  [\A r \in Requests : receipt[r] # "none" => receipt'[r] = receipt[r]]_vars
    BY <1>1, ReceiptWriters DEF ReceiptCommit
  <1> QED
    BY TypeInit, TypeStep, <1>1, PTL DEF Spec, ReceiptImmutable

-----------------------------------------------------------------------------
(* Completion *)

(* A completion in flight has already seen the receipt it rests on. *)
CompletionInv ==
    /\ CompletionNeedsReceipt
    /\ \A x \in Sessions : tx[x].op = "command" /\ tx[x].status = "completed" =>
          \E r \in Requests : CommandOf[r] = tx[x].cmd /\ receipt[r] = "succeeded"

\* No command is completed at first.
LEMMA CompletionInit == Init => CompletionInv
  BY DEF Init, CompletionInv, CompletionNeedsReceipt, Idle

\* Every step keeps that a completion rests on a receipt it has seen.
LEMMA CompletionStep == TypeOK /\ CompletionInv /\ [Next]_vars => CompletionInv'
  <1> SUFFICES ASSUME TypeOK, CompletionInv, [Next]_vars PROVE CompletionInv'
    OBVIOUS
  <1>0. \A r \in Requests : receipt[r] = "succeeded" => receipt'[r] = "succeeded"
    BY ReceiptWriters DEF ReceiptCommit
  <1>1. ASSUME NEW c \in Commands, command'[c].status = "completed"
        PROVE  \E r \in Requests : CommandOf[r] = c /\ receipt'[r] = "succeeded"
    <2>1. CASE command[c].status = "completed"
      BY <1>0, <2>1 DEF CompletionInv, CompletionNeedsReceipt
    <2>2. ASSUME NEW x \in Sessions, NEW q \in Requests, CreateCommit(x, q) \/ VoteCommit(x, q)
          PROVE  command'[c].status = command[c].status
      <3>1. command' \in {command, [command EXCEPT ![CommandOf[q]].approved = TRUE]}
        BY <2>2 DEF CreateCommit, VoteCommit
      <3> QED
        BY <3>1 DEF TypeOK
    <2>3. ASSUME NEW x \in Sessions, NEW d \in Commands, CommandCommit(x, d),
                 command[c].status # "completed"
          PROVE  tx[x].op = "command" /\ tx[x].cmd = c /\ tx[x].status = "completed"
      BY <1>1, <2>3 DEF CommandCommit, TypeOK
    <2> QED
      BY StepKinds, <1>0, <1>1, <2>1, <2>2, <2>3
      DEF CompletionInv, rows, IssueCommit, ClaimCommit, ReceiptCommit, ControlCommit,
          PolicyCommit, ExpireRequestsCommit, ExpirePermitsCommit, RevokeCommit
  <1>2. ASSUME NEW x \in Sessions, tx'[x].op = "command", tx'[x].status = "completed"
        PROVE  \E r \in Requests : CommandOf[r] = tx'[x].cmd /\ receipt'[r] = "succeeded"
    <2>1. CASE tx'[x] = tx[x]
      BY <1>0, <1>2, <2>1 DEF CompletionInv
    <2>2. ASSUME NEW c \in Commands, NEW st \in CommandStatuses, CommandRead(x, c, st)
          PROVE  \E r \in Requests : CommandOf[r] = tx'[x].cmd /\ receipt'[r] = "succeeded"
      <3>1. st = "completed" /\ tx'[x].cmd = c
        BY <1>2, <2>2 DEF CommandRead, Begin, TypeOK
      <3>2. \E r \in Requests : Receipts(c) = {r} /\ receipt[r] = "succeeded"
        BY <2>2, <3>1 DEF CommandRead, CompletionStatus
      <3> QED
        BY <1>0, <3>1, <3>2 DEF Receipts
    <2> QED
      BY <1>2, <2>1, <2>2, TxKinds
      DEF TypeOK, Idle, Begin, CreateRead, IssueRead, IssueCheck, ClaimRead, ClaimCheck, VoteRead,
          VoteTally, ReceiptRead, ExpireRequestsRead, ExpirePermitsRead, RevokeRead,
          ControlRead, PolicyRead
  <1> QED
    BY <1>1, <1>2 DEF CompletionInv, CompletionNeedsReceipt

(* A privileged command is completed only on a receipt that says "succeeded". *)
THEOREM CompletionCorrect == Spec => []CompletionNeedsReceipt
  <1>1. CompletionInv => CompletionNeedsReceipt
    BY DEF CompletionInv
  <1> QED
    BY TypeInit, TypeStep, CompletionInit, CompletionStep, <1>1, PTL DEF Spec

-----------------------------------------------------------------------------
(* Consent *)

(* A revocation or expiry in flight holds only permits that exist. *)
SeenInv ==
    \A x \in Sessions : tx[x].op \in {"control", "policy", "revoke", "expirePermits"} =>
        \A r \in tx[x].seen : permit[r].status # "none"

\* No revocation or expiry is under way at first.
LEMMA SeenInit == Init => SeenInv
  BY DEF Init, SeenInv, Idle

(* A permit row never disappears, and only IssueCommit inserts one. *)
LEMMA PermitExists ==
    ASSUME TypeOK, UseInv, SeenInv, [Next]_vars, NEW r \in Requests
    PROVE  /\ permit[r].status # "none" => permit'[r].status # "none"
           /\ permit'[r].status # "none" /\ permit[r].status = "none" =>
                  \E x \in Sessions : IssueCommit(x, r)
  <1> DEFINE Goal == /\ permit[r].status # "none" => permit'[r].status # "none"
                     /\ permit'[r].status # "none" /\ permit[r].status = "none" =>
                            \E x \in Sessions : IssueCommit(x, r)
  <1>1. UNCHANGED permit => Goal
    OBVIOUS
  <1>2. ASSUME NEW x \in Sessions, NEW q \in Requests, IssueCommit(x, q) PROVE Goal
    <2>1. CASE q = r
      BY <1>2, <2>1 DEF IssueCommit, TypeOK
    <2>2. CASE q # r
      BY <1>2, <2>2 DEF IssueCommit, TypeOK
    <2> QED
      BY <2>1, <2>2
  <1>3. ASSUME NEW x \in Sessions, NEW q \in Requests, ClaimCommit(x, q) PROVE Goal
    BY <1>3 DEF ClaimCommit, TypeOK, PermitRow
  <1>4. ASSUME NEW x \in Sessions, NEW q \in Requests, ReceiptCommit(x, q) PROVE Goal
    <2>1. permit[q].status # "none"
      BY <1>4 DEF ReceiptCommit, UseInv
    <2> QED
      BY <1>4, <2>1 DEF ReceiptCommit, TypeOK, PermitRow
  <1>5. ASSUME NEW x \in Sessions, NEW st \in {"revoked", "expired"},
               tx[x].op \in {"control", "policy", "revoke", "expirePermits"},
               permit' = Overwrite(tx[x].seen, st)
        PROVE  Goal
    BY <1>5 DEF Overwrite, TypeOK, PermitRow, SeenInv
  <1> QED
    BY StepKinds, <1>1, <1>2, <1>3, <1>4, <1>5
    DEF rows, CreateCommit, VoteCommit, ControlCommit, PolicyCommit, CommandCommit,
        ExpireRequestsCommit, ExpirePermitsCommit, RevokeCommit

\* Every step keeps that an open revocation or expiry has seen permits.
LEMMA SeenStep == TypeOK /\ UseInv /\ SeenInv /\ [Next]_vars => SeenInv'
  <1> SUFFICES ASSUME TypeOK, UseInv, SeenInv, [Next]_vars, NEW x \in Sessions,
                      tx'[x].op \in {"control", "policy", "revoke", "expirePermits"},
                      NEW r \in tx'[x].seen
               PROVE  permit'[r].status # "none"
    BY DEF SeenInv
  <1>0. \A y \in Sessions : tx[y] \in Tx
    BY DEF TypeOK
  <1>1. CASE tx'[x] = tx[x]
    <2>1. r \in Requests
      BY <1>0, <1>1, TxFields
    <2> QED
      BY <1>1, <2>1, PermitExists DEF SeenInv
  <1>2. CASE \/ ExpirePermitsRead(x)
             \/ \E s \in Scopes : RevokeRead(x, s) \/ \E st \in ControlStates : ControlRead(x, s, st)
             \/ \E p \in Policies, st \in PolicyStatuses : PolicyRead(x, p, st)
    <2>1. r \in Requests /\ permit[r].status \in {"active", "claimed"}
      BY <1>2 DEF ExpirePermitsRead, RevokeRead, ControlRead, PolicyRead, Begin, Revocable, TypeOK
    <2> QED
      BY <2>1, PermitExists
  <1> QED
    BY <1>1, <1>2, TxKinds
    DEF TypeOK, Idle, Begin, CreateRead, IssueRead, IssueCheck, ClaimRead, ClaimCheck, VoteRead,
        VoteTally, ReceiptRead, ExpireRequestsRead, CommandRead

(* Approvals are only added to. *)
LEMMA QuorumMonotone ==
    ASSUME NEW r \in Requests, NEW vs, NEW ws, vs \subseteq ws, QuorumMet(r, vs)
    PROVE  QuorumMet(r, ws)
  <1>1. Approvers(vs) \subseteq Approvers(ws)
    BY DEF Approvers
  <1>2. IsFiniteSet(Approvers(ws))
    BY FS_Subset, ConstantsAssumption DEF Approvers
  <1>3. /\ Cardinality(Approvers(vs)) <= Cardinality(Approvers(ws))
        /\ Cardinality(Approvers(vs)) \in Nat /\ Cardinality(Approvers(ws)) \in Nat
    BY <1>1, <1>2, FS_Subset, FS_CardinalityType
  <1> QED
    BY <1>1, <1>3, ConstantsAssumption DEF QuorumMet

\* Only cast_vote writes votes.
LEMMA VoteWriters ==
    ASSUME TypeOK, [Next]_vars, NEW r \in Requests
    PROVE  votes'[r] = votes[r] \/ \E x \in Sessions : VoteCommit(x, r)
  <1>1. ASSUME NEW x \in Sessions, NEW q \in Requests, VoteCommit(x, q), q # r
        PROVE  votes'[r] = votes[r]
    BY <1>1 DEF VoteCommit, TypeOK
  <1> QED
    BY StepKinds, <1>1
    DEF rows, CreateCommit, IssueCommit, ClaimCommit, ReceiptCommit, ControlCommit,
        PolicyCommit, CommandCommit, ExpireRequestsCommit, ExpirePermitsCommit, RevokeCommit

\* Votes are only added.
LEMMA VotesGrow ==
    ASSUME TypeOK, [Next]_vars, NEW r \in Requests
    PROVE  votes[r] \subseteq votes'[r]
  <1>1. ASSUME NEW x \in Sessions, VoteCommit(x, r)
        PROVE  votes'[r] = votes[r] \cup {tx[x].vote}
    BY <1>1 DEF VoteCommit, TypeOK
  <1> QED
    BY <1>1, VoteWriters

(* The verdict of a tally is based on votes that are all committed with it, *)
(* and an issue in flight on an approval that already had its quorum.       *)
ConsentInv ==
    /\ \A r \in Requests :
          request[r].status = "approved" \/ permit[r].status # "none" => QuorumMet(r, votes[r])
    /\ \A r \in Requests : Rule[r].disallow_proposer =>
          \A vote \in votes[r] : vote.voter # Proposer
    /\ \A x \in Sessions :
          /\ tx[x].op \in {"issue", "issueChecked"} => QuorumMet(tx[x].req, votes[tx[x].req])
          /\ tx[x].op \in {"vote", "tally"} =>
                (Rule[tx[x].req].disallow_proposer => tx[x].vote.voter # Proposer)
          /\ tx[x].op = "tally" => tx[x].seen \subseteq votes[tx[x].req] \cup {tx[x].vote}

\* Nothing is approved at first.
LEMMA ConsentInit == Init => ConsentInv
  BY DEF Init, ConsentInv, Idle, NoPermit

\* Every step keeps that approvals, and permits under way, have a quorum.
LEMMA ConsentStep == TypeOK /\ UseInv /\ SeenInv /\ ConsentInv /\ [Next]_vars => ConsentInv'
  <1> SUFFICES ASSUME TypeOK, UseInv, SeenInv, ConsentInv, [Next]_vars PROVE ConsentInv'
    OBVIOUS
  <1>0. \A x \in Sessions : tx[x] \in Tx
    BY DEF TypeOK
  <1>1. \A r \in Requests : QuorumMet(r, votes[r]) => QuorumMet(r, votes'[r])
    BY QuorumMonotone, VotesGrow
  <1>2. ASSUME NEW r \in Requests, request'[r].status = "approved"
        PROVE  QuorumMet(r, votes'[r])
    <2>1. CASE request[r].status = "approved"
      BY <1>1, <2>1 DEF ConsentInv
    <2>2. ASSUME NEW x \in Sessions, NEW q \in Requests, CreateCommit(x, q),
                 request[r].status # "approved"
          PROVE  QuorumMet(r, votes'[r])
      <3>1. q = r /\ Rule[r].quorum = 0 /\ ~Rule[r].require_admin
        BY <1>2, <2>2 DEF CreateCommit, TypeOK
      <3>2. Cardinality(Approvers(votes'[r])) \in Nat
        BY FS_Subset, FS_CardinalityType, ConstantsAssumption DEF Approvers
      <3> QED
        BY <3>1, <3>2 DEF QuorumMet
    <2>3. ASSUME NEW x \in Sessions, NEW q \in Requests, VoteCommit(x, q),
                 request[r].status # "approved"
          PROVE  QuorumMet(r, votes'[r])
      <3>1. q = r /\ QuorumMet(r, tx[x].seen) /\ tx[x].op = "tally" /\ tx[x].req = r
        BY <1>2, <2>3 DEF VoteCommit, TypeOK
      <3>2. tx[x].seen \subseteq votes'[r]
        BY <2>3, <3>1 DEF VoteCommit, TypeOK, ConsentInv
      <3> QED
        BY <3>1, <3>2, QuorumMonotone
    <2>4. ASSUME NEW x \in Sessions, ExpireRequestsCommit(x) PROVE request[r].status = "approved"
      BY <1>2, <2>4 DEF ExpireRequestsCommit, TypeOK
    <2> QED
      BY StepKinds, <1>2, <2>1, <2>2, <2>3, <2>4
      DEF rows, IssueCommit, ClaimCommit, ReceiptCommit, ControlCommit,
          PolicyCommit, CommandCommit, ExpirePermitsCommit, RevokeCommit
  <1>3. ASSUME NEW r \in Requests, permit'[r].status # "none"
        PROVE  QuorumMet(r, votes'[r])
    BY <1>1, <1>3, PermitExists DEF ConsentInv, IssueCommit
  <1>4. ASSUME NEW r \in Requests, Rule[r].disallow_proposer, NEW vote \in votes'[r]
        PROVE  vote.voter # Proposer
    <2>1. ASSUME NEW x \in Sessions, VoteCommit(x, r)
          PROVE  vote \in votes[r] \/ (tx[x].op = "tally" /\ tx[x].req = r /\ vote = tx[x].vote)
      BY <2>1 DEF VoteCommit, TypeOK
    <2> QED
      BY <1>4, <2>1, VoteWriters DEF ConsentInv
  <1>5. ASSUME NEW x \in Sessions
        PROVE  /\ tx'[x].op \in {"issue", "issueChecked"} =>
                     QuorumMet(tx'[x].req, votes'[tx'[x].req])
               /\ tx'[x].op \in {"vote", "tally"} =>
                     (Rule[tx'[x].req].disallow_proposer => tx'[x].vote.voter # Proposer)
               /\ tx'[x].op = "tally" =>
                     tx'[x].seen \subseteq votes'[tx'[x].req] \cup {tx'[x].vote}
    <2>1. CASE tx'[x] = tx[x]
      BY <1>0, <1>1, <2>1, TxFields, VotesGrow DEF ConsentInv
    <2>2. CASE \E r \in Requests : IssueRead(x, r) \/ IssueCheck(x, r)
      BY <1>1, <2>2 DEF IssueRead, IssueCheck, Begin, ConsentInv, TypeOK
    <2>3. CASE \E r \in Requests, v \in Voters, d \in Decisions : VoteRead(x, r, v, d)
      BY <2>3 DEF VoteRead, Begin, TypeOK
    <2>4. CASE VoteTally(x)
      BY <2>4 DEF VoteTally, TypeOK, ConsentInv, rows
    <2> QED
      BY <2>1, <2>2, <2>3, <2>4, TxKinds
      DEF TypeOK, Idle, Begin, CreateRead, ClaimRead, ClaimCheck, ReceiptRead,
          ExpireRequestsRead, ExpirePermitsRead, RevokeRead, ControlRead, PolicyRead, CommandRead
  <1> QED
    BY <1>2, <1>3, <1>4, <1>5 DEF ConsentInv

(* No permit without the committed votes of a quorum, none of them the    *)
(* proposer's where the rule forbids it, however votes and issues overlap. *)
THEOREM ConsentCorrect == Spec => []PermitBackedByQuorum
  <1>1. ConsentInv => PermitBackedByQuorum
    BY DEF ConsentInv, PermitBackedByQuorum
  <1> QED
    BY TypeInit, TypeStep, UseInit, UseStep, SeenInit, SeenStep, ConsentInit, ConsentStep,
       <1>1, PTL DEF Spec

-----------------------------------------------------------------------------
(* The fences *)

\* The generation of a policy stays or goes up by one.
LEMMA PolicyWriters ==
    ASSUME TypeOK, [Next]_vars, NEW p \in Policies
    PROVE  policy'[p].generation \in {policy[p].generation, policy[p].generation + 1}
  <1>1. ASSUME NEW x \in Sessions, NEW q \in Policies, PolicyCommit(x, q)
        PROVE  policy'[p].generation \in {policy[p].generation, policy[p].generation + 1}
    BY <1>1 DEF PolicyCommit, TypeOK
  <1> QED
    BY StepKinds, <1>1
    DEF rows, CreateCommit, VoteCommit, IssueCommit, ClaimCommit, ReceiptCommit, ControlCommit,
        CommandCommit, ExpireRequestsCommit, ExpirePermitsCommit, RevokeCommit

(* The snapshot of a permit is fixed when the permit is inserted. *)
LEMMA SnapshotFixed ==
    ASSUME TypeOK, [Next]_vars, NEW r \in Requests
    PROVE  \/ permit'[r].generation = permit[r].generation /\ permit'[r].controls = permit[r].controls
           \/ \E x \in Sessions : IssueCommit(x, r)
  <1> DEFINE Same == /\ permit'[r].generation = permit[r].generation
                     /\ permit'[r].controls = permit[r].controls
  <1>1. UNCHANGED permit => Same
    OBVIOUS
  <1>2. ASSUME NEW x \in Sessions, NEW q \in Requests, IssueCommit(x, q), q # r PROVE Same
    BY <1>2 DEF IssueCommit, TypeOK
  <1>3. ASSUME NEW x \in Sessions, NEW q \in Requests, ClaimCommit(x, q) PROVE Same
    BY <1>3 DEF ClaimCommit, TypeOK, PermitRow
  <1>4. ASSUME NEW x \in Sessions, NEW q \in Requests, ReceiptCommit(x, q) PROVE Same
    BY <1>4 DEF ReceiptCommit, TypeOK, PermitRow
  <1>5. ASSUME NEW rs, NEW st, permit' = Overwrite(rs, st) PROVE Same
    BY <1>5 DEF Overwrite, TypeOK, PermitRow
  <1> QED
    BY StepKinds, <1>1, <1>2, <1>3, <1>4, <1>5
    DEF rows, CreateCommit, VoteCommit, ControlCommit, PolicyCommit, CommandCommit,
        ExpireRequestsCommit, ExpirePermitsCommit, RevokeCommit

(* No permit, and no issue in flight, is ahead of its policy. *)
PolicyFenceInv ==
    /\ \A r \in Requests : permit[r].generation <= policy[PolicyOf[r]].generation
    /\ \A x \in Sessions : tx[x].op \in {"issue", "issueChecked"} =>
          tx[x].generation <= policy[PolicyOf[tx[x].req]].generation

\* No snapshot of a policy exists at first.
LEMMA PolicyFenceInit == Init => PolicyFenceInv
  BY ConstantsAssumption DEF Init, PolicyFenceInv, Idle, NoPermit

\* Every step keeps that no snapshot of a policy is ahead of it.
LEMMA PolicyFenceStep == TypeOK /\ PolicyFenceInv /\ [Next]_vars => PolicyFenceInv'
  <1> SUFFICES ASSUME TypeOK, PolicyFenceInv, [Next]_vars PROVE PolicyFenceInv'
    OBVIOUS
  <1>0. /\ \A x \in Sessions : tx[x] \in Tx
        /\ \A r \in Requests : PolicyOf[r] \in Policies /\ permit[r].generation \in Nat
        /\ \A p \in Policies : policy[p].generation \in Nat
    BY ConstantsAssumption DEF TypeOK, PermitRow
  <1>1. \A r \in Requests : \A n \in Nat : n <= policy[PolicyOf[r]].generation =>
            n <= policy'[PolicyOf[r]].generation
    BY <1>0, PolicyWriters
  <1>2. ASSUME NEW r \in Requests
        PROVE  permit'[r].generation <= policy'[PolicyOf[r]].generation
    <2>1. ASSUME NEW x \in Sessions, IssueCommit(x, r)
          PROVE  /\ tx[x].op = "issueChecked" /\ tx[x].req = r
                 /\ permit'[r].generation = tx[x].generation
      BY <2>1 DEF IssueCommit, TypeOK
    <2>2. ASSUME NEW x \in Sessions, tx[x].op = "issueChecked" PROVE tx[x].generation \in Nat
      BY <1>0, <2>2, TxFields
    <2> QED
      BY <1>0, <1>1, <2>1, <2>2, SnapshotFixed DEF PolicyFenceInv
  <1>3. ASSUME NEW x \in Sessions, tx'[x].op \in {"issue", "issueChecked"}
        PROVE  tx'[x].generation <= policy'[PolicyOf[tx'[x].req]].generation
    <2>1. CASE tx'[x] = tx[x]
      <3>1. tx[x].req \in Requests /\ tx[x].generation \in Nat
        BY <1>0, <1>3, <2>1, TxFields
      <3> QED
        BY <1>1, <1>3, <2>1, <3>1 DEF PolicyFenceInv
    <2>2. ASSUME NEW r \in Requests, IssueRead(x, r)
          PROVE  tx'[x].generation <= policy'[PolicyOf[tx'[x].req]].generation
      BY <1>0, <1>1, <2>2 DEF IssueRead, Begin, TypeOK
    <2>3. ASSUME NEW r \in Requests, IssueCheck(x, r)
          PROVE  tx'[x].generation <= policy'[PolicyOf[tx'[x].req]].generation
      <3>1. tx[x].generation \in Nat /\ tx[x].op = "issue" /\ tx[x].req = r
        BY <1>0, <2>3, TxFields DEF IssueCheck
      <3>2. tx'[x].generation = tx[x].generation /\ tx'[x].req = r
        BY <2>3 DEF IssueCheck, TypeOK
      <3> QED
        BY <1>1, <3>1, <3>2 DEF PolicyFenceInv
    <2> QED
      BY <1>3, <2>1, <2>2, <2>3, TxKinds
      DEF TypeOK, Idle, Begin, CreateRead, ClaimRead, ClaimCheck, VoteRead, VoteTally, ReceiptRead,
          ExpireRequestsRead, ExpirePermitsRead, RevokeRead, ControlRead, PolicyRead, CommandRead
  <1> QED
    BY <1>2, <1>3 DEF PolicyFenceInv

(* A permit whose policy has moved on and that no claim had begun to check is *)
(* never claimed, however the updates of the policy overlap with the claims.  *)
THEOREM PolicyFenceCorrect == Spec => PolicyFenceFinal
  <1>1. ASSUME TypeOK, UseInv, SeenInv, PolicyFenceInv, [Next]_vars, NEW r \in Requests,
               PolicyFenced(r)
        PROVE  PolicyFenced(r)'
    <2>1. permit'[r].status # "none"
      BY <1>1, PermitExists DEF PolicyFenced
    <2>2. ~permit'[r].claimed
      BY <1>1, ClaimedSteps DEF PolicyFenced, ClaimCommit
    <2>3. permit'[r].generation # policy'[PolicyOf[r]].generation
      <3>1. permit'[r].generation = permit[r].generation
        BY <1>1, SnapshotFixed DEF PolicyFenced, IssueCommit
      <3>2. permit[r].generation \in Nat /\ PolicyOf[r] \in Policies
            /\ policy[PolicyOf[r]].generation \in Nat
        BY <1>1, ConstantsAssumption DEF TypeOK, PermitRow
      <3> QED
        BY <1>1, <3>1, <3>2, PolicyWriters DEF PolicyFenced, PolicyFenceInv
    <2>4. ~\E x \in Sessions : tx'[x].op = "claim" /\ tx'[x].req = r
      <3> SUFFICES ASSUME NEW x \in Sessions, tx'[x].op = "claim",
                          tx'[x].req = r
                   PROVE  FALSE
        OBVIOUS
      <3>1. tx'[x] # tx[x]
        BY <1>1 DEF PolicyFenced
      <3>2. ASSUME NEW q \in Requests, ClaimRead(x, q) PROVE FALSE
        <4>1. q = r
          BY <3>2, <1>1 DEF ClaimRead, Begin, TypeOK
        <4> QED
          BY <3>2, <4>1, <1>1 DEF ClaimRead, PolicyFenced
      <3>3. ASSUME NEW q \in Requests, NEW z \in Scopes, ClaimCheck(x, q, z) PROVE FALSE
        <4>1. q = r
          BY <3>3, <1>1 DEF ClaimCheck, TypeOK
        <4> QED
          BY <3>3, <4>1, <1>1 DEF ClaimCheck, PolicyFenced
      <3> QED
        BY <1>1, <3>1, <3>2, <3>3, TxKinds
        DEF TypeOK, Idle, Begin, CreateRead, IssueRead, IssueCheck, VoteRead, VoteTally, ReceiptRead,
            ExpireRequestsRead, ExpirePermitsRead, RevokeRead, ControlRead, PolicyRead, CommandRead
    <2> QED
      BY <2>1, <2>2, <2>3, <2>4 DEF PolicyFenced
  <1>2. ASSUME TypeOK, UseInv, SeenInv, PolicyFenceInv, [Next]_vars
        PROVE  [\A r \in Requests : PolicyFenced(r) => PolicyFenced(r)']_vars
    BY <1>1, <1>2
  <1> QED
    BY TypeInit, TypeStep, UseInit, UseStep, SeenInit, SeenStep, PolicyFenceInit,
       PolicyFenceStep, <1>2, PTL DEF Spec, PolicyFenceFinal

\* set_control writes the generation it read, plus one; nothing else writes it.
LEMMA ControlWriters ==
    ASSUME TypeOK, [Next]_vars, NEW s \in Scopes
    PROVE  \/ control'[s].generation = control[s].generation
           \/ \E x \in Sessions : /\ tx[x].op = "control" /\ tx[x].scope = s
                                  /\ control'[s].generation = tx[x].generation + 1
  <1>1. ASSUME NEW x \in Sessions, NEW z \in Scopes, ControlCommit(x, z)
        PROVE  \/ control'[s].generation = control[s].generation
               \/ /\ tx[x].op = "control" /\ tx[x].scope = s
                  /\ control'[s].generation = tx[x].generation + 1
    BY <1>1 DEF ControlCommit, TypeOK
  <1> QED
    BY StepKinds, <1>1
    DEF rows, CreateCommit, VoteCommit, IssueCommit, ClaimCommit, ReceiptCommit, PolicyCommit,
        CommandCommit, ExpireRequestsCommit, ExpirePermitsCommit, RevokeCommit

\* A set_control under way read the generation when it began.
LEMMA ControlReaders ==
    ASSUME TypeOK, [Next]_vars, NEW x \in Sessions, tx'[x].op = "control", tx'[x] # tx[x]
    PROVE  tx'[x].generation = control[tx'[x].scope].generation
  <1>1. PICK s \in Scopes, st \in ControlStates : ControlRead(x, s, st)
    BY TxKinds
    DEF TypeOK, Idle, Begin, CreateRead, IssueRead, IssueCheck, ClaimRead, ClaimCheck, VoteRead,
        VoteTally, ReceiptRead, ExpireRequestsRead, ExpirePermitsRead, RevokeRead, PolicyRead,
        CommandRead
  <1> QED
    BY <1>1 DEF ControlRead, Begin, TypeOK

\* Once a scope has moved past a permit it stays past it, whichever set_control
\* calls overlap.
LEMMA MovedPastStays ==
    ASSUME TypeOK, [Next]_vars, NEW r \in Requests, NEW s \in Scopes, MovedPast(s, r),
           permit'[r].controls = permit[r].controls
    PROVE  MovedPast(s, r)'
  <1>0. /\ permit[r].controls[s] \in Nat /\ control[s].generation \in Nat
        /\ \A x \in Sessions : tx[x] \in Tx
    BY DEF TypeOK, PermitRow
  <1>1. permit[r].controls[s] < control'[s].generation
    <2>1. CASE control'[s].generation = control[s].generation
      BY <2>1 DEF MovedPast
    <2>2. ASSUME NEW x \in Sessions, tx[x].op = "control", tx[x].scope = s,
                 control'[s].generation = tx[x].generation + 1
          PROVE  permit[r].controls[s] < control'[s].generation
      <3>1. tx[x].generation \in Nat
        BY <1>0, <2>2, TxFields
      <3> QED
        BY <1>0, <2>2, <3>1 DEF MovedPast
    <2> QED
      BY <2>1, <2>2, ControlWriters
  <1>2. ASSUME NEW x \in Sessions, tx'[x].op = "control", tx'[x].scope = s
        PROVE  permit[r].controls[s] <= tx'[x].generation
    <2>1. CASE tx'[x] = tx[x]
      BY <1>2, <2>1 DEF MovedPast
    <2>2. CASE tx'[x] # tx[x]
      <3>1. tx'[x].generation = control[s].generation
        BY <1>2, <2>2, ControlReaders
      <3> QED
        BY <1>0, <3>1 DEF MovedPast
    <2> QED
      BY <2>1, <2>2
  <1> QED
    BY <1>1, <1>2 DEF MovedPast

(* A permit that a governing scope has moved past before a claim compared the  *)
(* two is never claimed, even if it was inserted behind the back of the kill   *)
(* that should have revoked it, and however set_control calls overlap.         *)
THEOREM ControlFenceCorrect == Spec => ControlFenceFinal
  <1>1. ASSUME TypeOK, UseInv, SeenInv, [Next]_vars, NEW r \in Requests, ControlFenced(r)
        PROVE  ControlFenced(r)'
    <2>0. PICK s \in Scopes : /\ s \in ScopesOf(r) /\ MovedPast(s, r)
                              /\ \A x \in Sessions : (tx[x].op = "claim" /\ tx[x].req = r) => s \in tx[x].left
      BY <1>1 DEF ControlFenced, ScopesOf
    <2>1. permit'[r].status # "none"
      BY <1>1, PermitExists DEF ControlFenced
    <2>2. ~permit'[r].claimed
      BY <1>1, <2>0, ClaimedSteps DEF ControlFenced, ClaimCommit
    <2>3. MovedPast(s, r)'
      <3>1. permit'[r].controls = permit[r].controls
        BY <1>1, SnapshotFixed DEF ControlFenced, IssueCommit
      <3> QED
        BY <1>1, <2>0, <3>1, MovedPastStays
    <2>4. ASSUME NEW x \in Sessions, tx'[x].op = "claim", tx'[x].req = r
          PROVE  s \in tx'[x].left
      <3>1. CASE tx'[x] = tx[x]
        BY <2>0, <2>4, <3>1
      <3>2. ASSUME NEW q \in Requests, ClaimRead(x, q) PROVE s \in tx'[x].left
        <4>1. tx'[x] = [op |-> "claim", req |-> q, left |-> ScopesOf(q)]
          BY <3>2, <1>1 DEF ClaimRead, Begin, TypeOK
        <4> QED
          BY <2>0, <2>4, <4>1
      <3>3. ASSUME NEW q \in Requests, NEW z \in Scopes, ClaimCheck(x, q, z) PROVE s \in tx'[x].left
        <4>1. PICK t \in Tx : t = tx[x] /\ t.op = "claim" /\ t.req = q
          BY <1>1, <3>3 DEF ClaimCheck, TypeOK
        <4>2. tx'[x] = [t EXCEPT !.left = @ \ {z}]
          BY <1>1, <3>3, <4>1 DEF ClaimCheck, TypeOK
        <4>3. tx'[x].req = q /\ tx'[x].left = t.left \ {z}
          BY <4>1, <4>2 DEF Tx, Idle
        <4>4. q = r /\ s \in t.left
          BY <2>0, <2>4, <4>1, <4>3
        <4>5. control[z].generation = permit[r].controls[z]
          BY <3>3, <4>4 DEF ClaimCheck
        <4>6. permit[r].controls[z] \in Nat
          BY <1>1 DEF TypeOK, PermitRow
        <4>7. z # s
          BY <2>0, <4>5, <4>6 DEF MovedPast
        <4> QED
          BY <4>3, <4>4, <4>7
      <3> QED
        BY <1>1, <2>4, <3>1, <3>2, <3>3, TxKinds
        DEF TypeOK, Idle, Begin, CreateRead, IssueRead, IssueCheck, VoteRead, VoteTally,
            ReceiptRead, ExpireRequestsRead, ExpirePermitsRead, RevokeRead, ControlRead, PolicyRead,
            CommandRead
    <2>5. \E z \in ScopesOf(r) : /\ MovedPast(z, r)'
                                 /\ \A x \in Sessions : (tx'[x].op = "claim" /\ tx'[x].req = r) => z \in tx'[x].left
      BY <2>0, <2>3, <2>4
    <2> QED
      BY <2>1, <2>2, <2>5 DEF ControlFenced, MovedPast, ScopesOf
  <1>2. ASSUME TypeOK, UseInv, SeenInv, [Next]_vars
        PROVE  [\A r \in Requests : ControlFenced(r) => ControlFenced(r)']_vars
    BY <1>1, <1>2
  <1> QED
    BY TypeInit, TypeStep, UseInit, UseStep, SeenInit, SeenStep, <1>2, PTL DEF Spec, ControlFenceFinal

(* The evidence of a permit is final: it does not come back from the dead and *)
(* its receipt is not replaced (claim_permit, record_receipt).                *)
THEOREM PermitHistoryCorrect == Spec => PermitHistory
  BY DeadPermitCorrect, ReceiptImmutableCorrect DEF PermitHistory

(* Both fences of claim_permit hold together.                                 *)
THEOREM FencesCorrect == Spec => FencesFinal
  BY ControlFenceCorrect, PolicyFenceCorrect DEF FencesFinal
=============================================================================
